---------------------------- MODULE Spec2Model ----------------------------
(***************************************************************************)
(* A model of the FridgePodge recipe API (src/index.js): the ingredient    *)
(* normaliser, the exclusion resolver, the exact-set matcher, the          *)
(* view/rating tracker, save-favorite and device migration, run by         *)
(* request handlers that interleave at every `await pool.query(...)`.      *)
(*                                                                         *)
(* Text is a sequence of one-character strings, so that the regular        *)
(* expressions of parseIngredient and getCoreIngredient are computed       *)
(* character by character as the JavaScript engine computes them.          *)
(***************************************************************************)
EXTENDS Integers, Sequences, FiniteSets, TLC

(***************************************************************************)
(* Characters and text                                                     *)
(***************************************************************************)
UpperCase == <<"A","B","C","D","E","F","G","H","I","J","K","L","M",
               "N","O","P","Q","R","S","T","U","V","W","X","Y","Z">>

LowerCase == <<"a","b","c","d","e","f","g","h","i","j","k","l","m",
               "n","o","p","q","r","s","t","u","v","w","x","y","z">>

Digits == {"0","1","2","3","4","5","6","7","8","9"}

\* \s of the regular expressions
IsSpace(c) == c \in {" ", "\t", "\n", "\r", "\f"}

\* \d
IsDigit(c) == c \in Digits

\* \w, the class behind \b
IsWordChar(c) ==
    \/ \E i \in 1..26 : c = UpperCase[i] \/ c = LowerCase[i]
    \/ IsDigit(c)
    \/ c = "_"

\* String.prototype.toLowerCase on one character
LowerChar(c) ==
    IF \E i \in 1..26 : c = UpperCase[i]
    THEN LowerCase[CHOOSE i \in 1..26 : c = UpperCase[i]]
    ELSE c

\* String.prototype.toLowerCase
toLowerCase(s) == [i \in 1..Len(s) |-> LowerChar(s[i])]

\* s.substring(from - 1, to) in 1-based closed positions; empty when from > to
Slice(s, from, to) == [i \in 1..(IF to >= from THEN to - from + 1 ELSE 0) |-> s[from + i - 1]]

\* the text s continues with the literal lit at position pos
StartsAt(s, pos, lit) ==
    /\ pos + Len(lit) - 1 <= Len(s)
    /\ \A k \in 1..Len(lit) : s[pos + k - 1] = lit[k]

\* \b between position pos - 1 and pos
WordBoundary(s, pos) ==
    LET before == pos > 1 /\ pos - 1 <= Len(s) /\ IsWordChar(s[pos - 1])
        after  == pos >= 1 /\ pos <= Len(s) /\ IsWordChar(s[pos])
    IN  before # after

\* String.prototype.trim
trim(s) ==
    LET keep == {i \in 1..Len(s) : ~IsSpace(s[i])}
    IN  IF keep = {} THEN <<>>
        ELSE LET lo == CHOOSE i \in keep : \A j \in keep : i <= j
                 hi == CHOOSE i \in keep : \A j \in keep : i >= j
             IN  Slice(s, lo, hi)

(***************************************************************************)
(* getCoreIngredient (src/index.js:194-214)                                *)
(***************************************************************************)
descriptors == <<
    <<"f","r","e","s","h">>,
    <<"d","r","i","e","d">>,
    <<"f","r","o","z","e","n">>,
    <<"c","a","n","n","e","d">>,
    <<"c","o","o","k","e","d">>,
    <<"r","a","w">>,
    <<"w","h","o","l","e">>,
    <<"g","r","o","u","n","d">>,
    <<"m","i","n","c","e","d">>,
    <<"d","i","c","e","d">>,
    <<"c","h","o","p","p","e","d">>,
    <<"s","l","i","c","e","d">> >>

mappings == <<
    <<<<"c","h","i","c","k","e","n"," ","b","r","e","a","s","t">>,
      <<"c","h","i","c","k","e","n">>>>,
    <<<<"c","h","i","c","k","e","n"," ","t","h","i","g","h","s">>,
      <<"c","h","i","c","k","e","n">>>>,
    <<<<"c","h","i","c","k","e","n"," ","w","i","n","g","s">>,
      <<"c","h","i","c","k","e","n">>>>,
    <<<<"g","r","o","u","n","d"," ","b","e","e","f">>,
      <<"b","e","e","f">>>>,
    <<<<"b","e","e","f"," ","s","t","e","a","k">>,
      <<"b","e","e","f">>>>,
    <<<<"w","h","i","t","e"," ","r","i","c","e">>,
      <<"r","i","c","e">>>>,
    <<<<"b","r","o","w","n"," ","r","i","c","e">>,
      <<"r","i","c","e">>>>,
    <<<<"j","a","s","m","i","n","e"," ","r","i","c","e">>,
      <<"r","i","c","e">>>>,
    <<<<"b","a","s","m","a","t","i"," ","r","i","c","e">>,
      <<"r","i","c","e">>>> >>

\* the alternatives of /\b(fresh|...|sliced)\b/ that match at position pos
DescriptorsAt(s, pos) ==
    {k \in 1..Len(descriptors) :
        /\ WordBoundary(s, pos)
        /\ StartsAt(s, pos, descriptors[k])
        /\ WordBoundary(s, pos + Len(descriptors[k]))}

\* .replace(/\b(fresh|...|sliced)\b/g, '') scanning from position pos
RECURSIVE StripDescriptorsFrom(_, _)
StripDescriptorsFrom(s, pos) ==
    IF pos > Len(s) THEN <<>>
    ELSE LET hits == DescriptorsAt(s, pos)
         IN  IF hits # {}
             THEN LET k == CHOOSE h \in hits : \A g \in hits : h <= g
                  IN  StripDescriptorsFrom(s, pos + Len(descriptors[k]))
             ELSE <<s[pos]>> \o StripDescriptorsFrom(s, pos + 1)

\* white space left as it is
KeepSpacesFrom(s, pos) == Slice(s, pos, Len(s))

\* .replace(/\s+/g, ' ') scanning from position pos
RECURSIVE CollapseSpacesFrom(_, _)
CollapseSpacesFrom(s, pos) ==
    IF pos > Len(s) THEN <<>>
    ELSE IF IsSpace(s[pos])
         THEN LET rest == {j \in pos..Len(s) : ~IsSpace(s[j])}
                  next == IF rest = {} THEN Len(s) + 1
                          ELSE CHOOSE j \in rest : \A i \in rest : j <= i
              IN  <<" ">> \o CollapseSpacesFrom(s, next)
         ELSE <<s[pos]>> \o CollapseSpacesFrom(s, pos + 1)

\* no alias table
NoMappings(cleaned) == cleaned

\* mappings[cleaned] || cleaned
ApplyMappings(cleaned) ==
    IF \E m \in 1..Len(mappings) : mappings[m][1] = cleaned
    THEN mappings[CHOOSE m \in 1..Len(mappings) : mappings[m][1] = cleaned][2]
    ELSE cleaned

getCoreIngredient(ingredientName) ==
    LET cleaned == trim(CollapseSpacesFrom(
                       StripDescriptorsFrom(toLowerCase(ingredientName), 1), 1))
    IN  ApplyMappings(cleaned)

(***************************************************************************)
(* parseIngredient (src/index.js:171-191)                                  *)
(*                                                                         *)
(* measurementPattern is                                                   *)
(*   ^(\d+(?:\/\d+)?(?:\.\d+)?)\s*(cup|cups|...)?\s*(.+?)(?:,\s*(.+))?$    *)
(* with the i flag.  The engine backtracks: greedy parts are tried longest *)
(* first, the unit alternatives in the order written, the lazy name        *)
(* shortest first.  The first combination for which the whole pattern      *)
(* matches is the result.                                                  *)
(***************************************************************************)
units == <<
    <<"c","u","p">>,
    <<"c","u","p","s">>,
    <<"t","a","b","l","e","s","p","o","o","n">>,
    <<"t","a","b","l","e","s","p","o","o","n","s">>,
    <<"t","b","s","p">>,
    <<"t","e","a","s","p","o","o","n">>,
    <<"t","e","a","s","p","o","o","n","s">>,
    <<"t","s","p">>,
    <<"p","o","u","n","d">>,
    <<"p","o","u","n","d","s">>,
    <<"l","b">>,
    <<"l","b","s">>,
    <<"o","u","n","c","e">>,
    <<"o","u","n","c","e","s">>,
    <<"o","z">>,
    <<"g","r","a","m">>,
    <<"g","r","a","m","s">>,
    <<"g">>,
    <<"k","i","l","o","g","r","a","m">>,
    <<"k","i","l","o","g","r","a","m","s">>,
    <<"k","g">>,
    <<"l","i","t","e","r">>,
    <<"l","i","t","e","r","s">>,
    <<"l">>,
    <<"m","i","l","l","i","l","i","t","e","r">>,
    <<"m","i","l","l","i","l","i","t","e","r","s">>,
    <<"m","l">>,
    <<"p","i","e","c","e">>,
    <<"p","i","e","c","e","s">>,
    <<"c","l","o","v","e">>,
    <<"c","l","o","v","e","s">>,
    <<"c","a","n">>,
    <<"c","a","n","s">>,
    <<"p","a","c","k","a","g","e">>,
    <<"p","a","c","k","a","g","e","s">>,
    <<"b","u","n","c","h">>,
    <<"b","u","n","c","h","e","s">> >>

\* the SQL NULL / JavaScript null of a text-valued field
Null == <<"null">>

\* the default of `match[2] || 'unit'`
DefaultUnit == <<"u","n","i","t">>

\* a line terminator, which `.` does not match
IsLineTerminator(c) == c \in {"\n", "\r"}

\* length of the run of digits that starts at pos
DigitRun(s, pos) ==
    LET stop == {j \in pos..Len(s) : ~IsDigit(s[j])}
    IN  IF pos > Len(s) THEN 0
        ELSE IF stop = {} THEN Len(s) - pos + 1
        ELSE (CHOOSE j \in stop : \A i \in stop : j <= i) - pos

\* length of the run of white space that starts at pos
SpaceRun(s, pos) ==
    LET stop == {j \in pos..Len(s) : ~IsSpace(s[j])}
    IN  IF pos > Len(s) THEN 0
        ELSE IF stop = {} THEN Len(s) - pos + 1
        ELSE (CHOOSE j \in stop : \A i \in stop : j <= i) - pos

\* s[from..to] holds no line terminator (what `.+` can cover)
DotCovers(s, from, to) == \A i \in from..to : ~IsLineTerminator(s[i])

\* the positions at which group 1, \d+(?:\/\d+)?(?:\.\d+)?, may end
AmountEnds(s) ==
    LET n     == DigitRun(s, 1)
        slash == n >= 1 /\ n + 1 <= Len(s) /\ s[n + 1] = "/"
        fmax  == IF slash THEN DigitRun(s, n + 2) ELSE 0
        base  == IF fmax >= 1 THEN n + 1 + fmax ELSE n
        dot   == n >= 1 /\ base + 1 <= Len(s) /\ s[base + 1] = "."
        dmax  == IF dot THEN DigitRun(s, base + 2) ELSE 0
    IN  (1..n) \cup {n + 1 + f : f \in 1..fmax} \cup {base + 1 + d : d \in 1..dmax}

\* the unit alternatives (0: the optional group is skipped) matching at pos,
\* compared without regard to case (flag i)
UnitsAt(s, pos) ==
    {0} \cup {u \in 1..Len(units) : StartsAt(toLowerCase(s), pos, units[u])}

UnitLen(u) == IF u = 0 THEN 0 ELSE Len(units[u])

\* the last white-space position j that `,\s*` may end at after a name ending
\* at k, leaving a non-empty preparation: the set of all such j
CommaEnds(s, k) ==
    IF k + 1 <= Len(s) /\ s[k + 1] = ","
    THEN {j \in (k + 1)..(Len(s) - 1) :
             /\ \A i \in (k + 2)..j : IsSpace(s[i])
             /\ DotCovers(s, j + 1, Len(s))}
    ELSE {}

\* the ends k of the lazy name (.+?) that starts at t and lets the rest match
NameEnds(s, t) ==
    {k \in t..Len(s) :
        /\ DotCovers(s, t, k)
        /\ (k = Len(s) \/ CommaEnds(s, k) # {})}

\* every way the head of the pattern can be matched so that the tail matches
\* too: e1 the end of the amount, w1 and w2 the white space taken by the two
\* \s*, u the unit alternative
HeadChoices(s) ==
    UNION {UNION {UNION {
        {[e1 |-> e, w1 |-> a, u |-> v, w2 |-> b] :
            b \in {x \in 0..SpaceRun(s, e + 1 + a + UnitLen(v)) :
                      NameEnds(s, e + 1 + a + UnitLen(v) + x) # {}}} :
        v \in UnitsAt(s, e + 1 + a)} :
        a \in 0..SpaceRun(s, e + 1)} :
        e \in AmountEnds(s)}

\* the order in which the engine tries unit alternatives: as written, the
\* skipped group last
UnitRank(u) == IF u = 0 THEN Len(units) + 1 ELSE u

\* c is tried before d by the backtracking engine
TriedBefore(c, d) ==
    \/ c.e1 > d.e1
    \/ c.e1 = d.e1 /\ c.w1 > d.w1
    \/ c.e1 = d.e1 /\ c.w1 = d.w1 /\ UnitRank(c.u) < UnitRank(d.u)
    \/ c.e1 = d.e1 /\ c.w1 = d.w1 /\ c.u = d.u /\ c.w2 > d.w2

\* parseFloat(match[1]): the leading decimal numeral of the amount text
parseFloatText(s) ==
    LET n    == DigitRun(s, 1)
        dmax == IF n + 1 <= Len(s) /\ s[n + 1] = "." THEN DigitRun(s, n + 2) ELSE 0
    IN  Slice(s, 1, IF dmax >= 1 THEN n + 1 + dmax ELSE n)

parseIngredient(ingredientStr) ==
    LET s       == ingredientStr
        choices == HeadChoices(s)
    IN  IF choices = {}
        THEN [amount |-> Null, unit |-> Null, name |-> trim(s), preparation |-> Null]
        ELSE LET c  == CHOOSE x \in choices :
                           \A y \in choices : x = y \/ TriedBefore(x, y)
                 up == c.e1 + 1 + c.w1
                 t  == up + UnitLen(c.u) + c.w2
                 ks == NameEnds(s, t)
                 k  == CHOOSE x \in ks : \A y \in ks : x <= y
                 js == CommaEnds(s, k)
             IN  [amount |-> parseFloatText(Slice(s, 1, c.e1)),
                  unit   |-> IF c.u = 0 THEN DefaultUnit
                             ELSE Slice(s, up, up + UnitLen(c.u) - 1),
                  name   |-> trim(Slice(s, t, k)),
                  preparation |->
                      IF js = {} THEN Null
                      ELSE Slice(s, 1 + (CHOOSE x \in js : \A y \in js : x >= y), Len(s))]

(***************************************************************************)
(* Numbers: AVG(rating) and average_rating are exact rationals <<n, d>>    *)
(* in lowest terms (d > 0); the SQL NULL of an average is <<0, 0>>.        *)
(***************************************************************************)
RECURSIVE Gcd(_, _)
Gcd(a, b) == IF b = 0 THEN a ELSE Gcd(b, a % b)

Rational(n, d) == LET g == Gcd(n, d) IN <<n \div g, d \div g>>

NullAverage == <<0, 0>>

\* a > b on rationals (both not NULL)
RationalGreater(a, b) == a[1] * b[2] > b[1] * a[2]

\* the sum of the ratings of a set of recipe_views rows
RECURSIVE SumRatings(_)
SumRatings(rows) ==
    IF rows = {} THEN 0
    ELSE LET x == CHOOSE y \in rows : TRUE IN x.rating + SumRatings(rows \ {x})

(***************************************************************************)
(* The inputs of the requests                                              *)
(***************************************************************************)
\* the largest number of requests a behaviour serves when they arrive one
\* after the other
MaxRequests == 4

\* the largest number of requests a behaviour serves when their handlers
\* interleave
MaxInterleaved == 3

\* the largest number of requests a behaviour serves when their handlers
\* interleave on an exhausted pool
MaxExhausted == 2

\* the largest number of requests a behaviour serves when it saves recipes
\* and then looks them up
MaxRoundTrip == 3

\* the largest number of requests a behaviour serves one after the other at
\* a deployment with the API key
MaxGenerate == 3

\* the largest number of requests a behaviour serves when every handler
\* runs on to its response
MaxResponds == 2

\* the requests of a run of SpecMigrate
MaxMigrate == 4

\* the requests in flight or served in a run of SpecPooled
MaxPooled == 2

\* the request handlers that can run at the same time
Procs == {1, 2}

\* req.body.deviceId: "" stands for an absent or empty deviceId
Devices == {"d1", "d2"}

DeviceInputs == Devices \cup {""}

\* the SQL NULL of submitted_by (`deviceId || null`)
NullDevice == "NULL"

\* the SQL NULL of recipe_views.rating
NullRating == 0

\* req.body.rating of a request that passes validation; 0 stands for a
\* missing rating
RatingInputs == {3, 5}

\* recipe.title of a request that passes validation; "" stands for a missing
\* title
TitleInputs == {"Test Soup", "Stew"}

Rice == <<"r","i","c","e">>

BrownRice == <<"B","r","o","w","n"," ","R","i","c","e">>

WhiteRice == <<"w","h","i","t","e"," ","r","i","c","e">>

ChickenBreast == <<"c","h","i","c","k","e","n"," ","b","r","e","a","s","t">>

OneCupRice == <<"1"," ","c","u","p"," ","r","i","c","e">>

TwoChickenThighs == <<"2"," ","c","h","i","c","k","e","n"," ","t","h","i","g","h","s">>

\* recipe.ingredients of a save-favorite request
IngredientLineInputs == {<<OneCupRice>>, <<OneCupRice, TwoChickenThighs>>}

\* req.body.ingredients of a match request that passes validation
IngredientQueryInputs ==
    {<<Rice>>, <<BrownRice, ChickenBreast>>, <<Rice, WhiteRice>>}

TwoCupsBroth == <<"2"," ","c","u","p","s"," ","b","r","o","t","h">>

OneCupCarrots == <<"1"," ","c","u","p"," ","c","a","r","r","o","t","s">>

Broth == <<"b","r","o","t","h">>

Carrots == <<"c","a","r","r","o","t","s">>

\* recipe.ingredients of a save-favorite request whose lines all read
\* "<amount> <unit> <name>"
MeasuredLineInputs == {<<OneCupRice>>, <<TwoCupsBroth, OneCupCarrots>>}

\* req.body.ingredients of a match request that names the ingredients of
\* such lines
BareNameInputs == {<<Rice>>, <<Broth, Carrots>>}

\* the elements of a sequence
Range(seq) == {seq[i] : i \in 1..Len(seq)}

\* the keys of the alias table of getCoreIngredient
AliasKeys == {mappings[m][1] : m \in 1..Len(mappings)}

\* ingredient names written with other letter case and other white space
SpacedNames ==
    {<<"b","r","o","w","n"," "," ","r","i","c","e">>,
     <<" ","B","R","O","W","N"," ","R","I","C","E"," ">>,
     <<"b","r","o","w","n","\t","r","i","c","e">>,
     <<"b","r","o","w","n"," ","r","i","c","e"," ">>,
     <<"F","r","e","s","h"," "," ","B","a","s","i","l">>,
     <<"f","r","e","s","h"," ","b","a","s","i","l">>}

\* ingredient lines with a quantity: with a unit, with a plural unit, with a
\* name that begins like a unit, without a unit, with a fraction, with a
\* preparation clause
QuantityLines ==
    {OneCupRice, TwoCupsBroth, OneCupCarrots, TwoChickenThighs,
     <<"1"," ","l","a","r","g","e"," ","o","n","i","o","n">>,
     <<"3"," ","c","l","o","v","e","s"," ","g","a","r","l","i","c">>,
     <<"1","/","2"," ","c","u","p"," ","m","i","l","k">>,
     <<"1"," ","o","n","i","o","n",","," ","d","i","c","e","d">>}

\* the ingredient strings the normaliser is applied to on its own
NormalizerTexts ==
    AliasKeys \cup SpacedNames \cup QuantityLines \cup {Rice, BrownRice, Broth}

\* every ingredient text a request can carry
IngredientTexts ==
    NormalizerTexts \cup
    UNION {Range(q) : q \in IngredientQueryInputs \cup IngredientLineInputs
                            \cup MeasuredLineInputs \cup BareNameInputs}

\* parseIngredient(ingredientStr), tabulated
ParsedOf == [t \in IngredientTexts |-> parseIngredient(t)]

\* getCoreIngredient(ingredientName), tabulated
CoreOf == [t \in IngredientTexts |-> getCoreIngredient(t)]

\* getCoreIngredient(ing.toLowerCase()) of the match handler, tabulated
MatchCoreOf == [t \in IngredientTexts |-> getCoreIngredient(toLowerCase(t))]

\* getCoreIngredient(parseIngredient(ingredientStr).name) of save-favorite,
\* tabulated
SaveCoreOf == [t \in IngredientTexts |-> getCoreIngredient(ParsedOf[t].name)]

(***************************************************************************)
(* State                                                                   *)
(*                                                                         *)
(* db    the committed rows of every table, a set of rows per table        *)
(* tx    per client of the pool, the open transaction of its connection:   *)
(*       the rows it added and the committed rows it removed or replaced   *)
(* poolExhausted  whether the server is under more concurrent requests     *)
(*       than the pool has clients, so that statements queue for clients   *)
(* pc    per handler, the statement it is waiting for ("idle": no request  *)
(*       yet, "done": response sent)                                       *)
(* req   per handler, the request being served                             *)
(* loc   per handler, the local variables of the handler                   *)
(* resp  per handler, the response sent                                    *)
(* nreq  the requests served so far                                        *)
(* returned     history: per device and recipe id, how many match          *)
(*              responses have returned that stored recipe to the device   *)
(* GEMINI_API_KEY  whether process.env.GEMINI_API_KEY is set               *)
(* calls  history: per handler, how many axios.post calls of each stage    *)
(*        its current request has issued to the text-generation service,   *)
(*        and what each stage's call has come to                           *)
(***************************************************************************)
VARIABLES db, tx, poolExhausted, pc, req, loc, resp, nreq, returned,
          GEMINI_API_KEY, calls

vars == <<db, tx, poolExhausted, pc, req, loc, resp, nreq, returned,
          GEMINI_API_KEY, calls>>

Tables == {"recipes", "ingredients", "recipe_ingredients", "recipe_instructions",
           "recipe_nutrition", "recipe_usage", "user_saved_recipes",
           "recipe_views", "premium_users"}

EmptyDb == [t \in Tables |-> {}]

NoTx == [active |-> FALSE, add |-> EmptyDb, del |-> EmptyDb]

NoRequest == [kind |-> "none"]

NoResponse == [status |-> 0]

\* `recipe` before the match query has answered
NoRecipe == [id |-> 0]

\* a request that has called the text-generation service at no stage
NoCalls ==
    [stage1 |-> 0, stage2 |-> 0, reply1 |-> [kind |-> "none"],
     reply2 |-> [kind |-> "none"]]

\* the largest number of recipe rows (save-favorite is not started beyond it)
MaxRecipes == 2

(***************************************************************************)
(* The store: PostgreSQL behind pg's Pool (src/index.js:45-50).  Every     *)
(* statement of every handler is a pool.query: the pool runs it on an idle *)
(* client and takes the client back.  BEGIN, COMMIT and ROLLBACK are       *)
(* statements like any other: each opens or ends the READ COMMITTED        *)
(* transaction of the client it happens to run on.                         *)
(*                                                                         *)
(* The pool keeps its idle clients on a stack and the statements waiting   *)
(* for a client in a queue.  While it has a client to spare, the statement *)
(* a handler issues when its previous one returns gets the client that was *)
(* just released: the handler keeps one client for the whole request.      *)
(* Once every client is taken, a released client goes to the statement at  *)
(* the head of the queue, whichever handler issued it: the exhausted pool  *)
(* is modelled with one client left for all the handlers.                  *)
(***************************************************************************)
\* the clients of the pool: one for each handler that can run at a time
Clients == Procs

\* the client the handlers share when the pool is exhausted
SharedClient == 1

\* the rows a statement run on client c sees: the committed rows and the
\* changes of the transaction open on c
View(c) == [t \in Tables |-> (db[t] \ tx[c].del[t]) \cup tx[c].add[t]]

\* the clients the pool can hand to the next statement of handler p: with
\* clients to spare the client p keeps, which is called p
PoolClients(p) == IF poolExhausted THEN {SharedClient} ELSE {p}

\* what a uniqueness constraint or a row lock identifies a row by
KeyOf(t, row) ==
    CASE t = "recipes"       -> row.id
      [] t = "ingredients"   -> row.name
      [] t = "recipe_views"  -> <<row.recipe_id, row.device_id>>
      [] t = "premium_users" -> row.device_id
      [] OTHER               -> row

\* a statement on client c touching the rows of table t with these keys has
\* to wait: the open transaction of another client has written a row with
\* such a key
Waits(c, t, keys) ==
    \E k \in Clients \ {c} :
        /\ tx[k].active
        /\ \E row \in tx[k].add[t] \cup tx[k].del[t] : KeyOf(t, row) \in keys

\* the transaction x after a statement in it has removed delRows from and
\* added addRows to table t
TxWrite(x, t, delRows, addRows) ==
    [x EXCEPT !.del[t] = @ \cup (delRows \cap db[t]),
              !.add[t] = (@ \ delRows) \cup addRows]

\* a statement on client c removes delRows from and adds addRows to table t:
\* at once when c is in autocommit, in its open transaction otherwise
Write(c, t, delRows, addRows) ==
    IF tx[c].active
    THEN /\ tx' = [tx EXCEPT ![c] = TxWrite(@, t, delRows, addRows)]
         /\ UNCHANGED db
    ELSE /\ db' = [db EXCEPT ![t] = (@ \ delRows) \cup addRows]
         /\ UNCHANGED tx

\* statements on client c that only insert: the rows rows[t] into each
\* table t
Insert(c, rows) ==
    IF tx[c].active
    THEN /\ tx' = [tx EXCEPT ![c].add = [t \in Tables |-> @[t] \cup rows[t]]]
         /\ UNCHANGED db
    ELSE /\ db' = [t \in Tables |-> db[t] \cup rows[t]]
         /\ UNCHANGED tx

\* BEGIN on client c; inside a transaction it changes nothing
Begin(c) == tx' = [tx EXCEPT ![c].active = TRUE] /\ UNCHANGED db

\* COMMIT on client c; outside a transaction it changes nothing
Commit(c) ==
    /\ db' = View(c)
    /\ tx' = [tx EXCEPT ![c] = NoTx]

\* ROLLBACK on client c; outside a transaction it changes nothing
Rollback(c) == tx' = [tx EXCEPT ![c] = NoTx] /\ UNCHANGED db

\* a statement on client c has failed: pool.query takes the client out of
\* the pool and closes its connection, which aborts the transaction open on
\* it; the next statement handed c gets a fresh connection
Failed(c) == tx' = [tx EXCEPT ![c] = NoTx] /\ UNCHANGED db

\* nextval of a SERIAL id column: a value no row of the table has, committed
\* or not
NextId(t) ==
    LET used == {row.id : row \in db[t] \cup UNION {tx[k].add[t] : k \in Clients}}
    IN  IF used = {} THEN 1
        ELSE 1 + CHOOSE m \in used : \A u \in used : m >= u

\* whether a store statement fails (connection loss, server error): any
\* statement can
Failing == BOOLEAN

(***************************************************************************)
(* Request bookkeeping                                                     *)
(***************************************************************************)
\* handler slot p is free
CanStart(p) == pc[p] \in {"idle", "done"}

\* res.json(...) / res.status(...).json(...): the request is over and the
\* handler's local variables are gone
Respond(p, r) ==
    /\ resp' = [resp EXCEPT ![p] = r]
    /\ pc' = [pc EXCEPT ![p] = "done"]
    /\ loc' = [loc EXCEPT ![p] = <<>>]

\* a request has passed validation: its handler waits for its first statement
\* with local variables l, and nothing has been sent yet
Accept(p, label, l) ==
    /\ pc' = [pc EXCEPT ![p] = label]
    /\ loc' = [loc EXCEPT ![p] = l]
    /\ resp' = [resp EXCEPT ![p] = NoResponse]

\* the handler goes on to wait for its next statement, its local variables
\* now being l
GotoWith(p, label, l) ==
    /\ pc' = [pc EXCEPT ![p] = label]
    /\ loc' = [loc EXCEPT ![p] = l]
    /\ UNCHANGED resp

\* the handler goes on to wait for its next statement
Goto(p, label) == GotoWith(p, label, loc[p])

\* the server has started on an empty store; key tells whether the
\* deployment has an API key for the text-generation service, exhausted
\* whether it runs with its pool exhausted
InitWith(key, exhausted) ==
    /\ db = EmptyDb
    /\ tx = [c \in Clients |-> NoTx]
    /\ poolExhausted = exhausted
    /\ pc = [p \in Procs |-> "idle"]
    /\ req = [p \in Procs |-> NoRequest]
    /\ loc = [p \in Procs |-> <<>>]
    /\ resp = [p \in Procs |-> NoResponse]
    /\ nreq = 0
    /\ returned = [d \in Devices |-> [id \in 1..MaxRecipes |-> 0]]
    /\ GEMINI_API_KEY = key
    /\ calls = [p \in Procs |-> NoCalls]

\* a deployment without the API key: a match request that finds no stored
\* recipe is answered at line 401
Init == InitWith(FALSE, FALSE)

\* a deployment with the API key
InitGenerate == InitWith(TRUE, FALSE)

\* a deployment without the API key under more concurrent requests than the
\* pool has clients
InitExhausted == InitWith(FALSE, TRUE)

(***************************************************************************)
(* The text-generation service: what an axios.post to GEMINI_15_FLASH_URL  *)
(* or GEMINI_20_FLASH_URL can come to, and the JSON values the text of a   *)
(* reply can parse to.  A JSON value is a record with its type; the text   *)
(* of a string is a sequence of characters, <<>> also standing for a       *)
(* property the object does not have.                                      *)
(***************************************************************************)
Undefined == [type |-> "undefined"]

JsonNull == [type |-> "null"]

JsonString(text) == [type |-> "string", text |-> text]

JsonNumber(text) == [type |-> "number", text |-> text]

JsonArray(items) == [type |-> "array", items |-> items]

\* an object of an ingredient line without any of the properties lines
\* 600-613 look at; `note` is a string property under any other key
NoProperties ==
    [type |-> "object", amount |-> <<>>, quantity |-> <<>>, unit |-> <<>>,
     measurement |-> <<>>, name |-> <<>>, ingredient |-> <<>>, item |-> <<>>,
     food |-> <<>>, note |-> <<>>]

\* the nutrition block of lines 581-587 (and 502-508, 1621-1627)
PlaceholderNutrition ==
    [type |-> "object", calories |-> 350, protein |-> "25g", carbs |-> "40g",
     fat |-> "12g", fiber |-> "5g"]

\* a nutrition block the service has written itself
GivenNutrition ==
    [type |-> "object", calories |-> 420, protein |-> "9g", carbs |-> "80g",
     fat |-> "3g", fiber |-> "2g"]

Salt == <<"s","a","l","t">>

Pepper == <<"p","e","p","p","e","r">>

Saffron == <<"s","a","f","f","r","o","n">>

One == <<"1">>

Cup == <<"c","u","p">>

Pinch == <<"p","i","n","c","h">>

Some == <<"S","o","m","e">>

\* line 16: the seasonings of the pack every request has (spicePacks ||
\* ['basic'])
spicePackDefinitions == [basic |-> {Salt, Pepper}]

\* line 408; the requests of the model select no pack of their own
activeSpicePacks == {"basic"}

\* line 409
availableSpices == UNION {spicePackDefinitions[pack] : pack \in activeSpicePacks}

\* a recipe object
Recipe(title, ingredients, nutrition) ==
    [type |-> "object", title |-> title, ingredients |-> ingredients,
     nutrition |-> nutrition]

\* the recipe objects a reply text parses to: one that follows the prompt,
\* one with structured lines and without nutrition, one without a title
\* that names an ingredient nobody listed, one whose ingredients are no array
FollowsPrompt ==
    Recipe("Rice Bowl",
           JsonArray(<<JsonString(OneCupRice), JsonString(Salt)>>),
           GivenNutrition)

StructuredLines ==
    Recipe("Rice Bowl",
           JsonArray(<<[NoProperties EXCEPT !.amount = One, !.unit = Cup,
                                            !.name = Rice],
                       [NoProperties EXCEPT !.quantity = One,
                                            !.measurement = Pinch,
                                            !.item = Salt],
                       [NoProperties EXCEPT !.note = Pepper],
                       NoProperties, JsonNull, JsonNumber(One)>>),
           Undefined)

UntitledForeign ==
    Recipe("", JsonArray(<<JsonString(Saffron)>>), Undefined)

IngredientsNoArray == Recipe("Rice Bowl", JsonString(OneCupRice), Undefined)

\* what JSON.parse can return for the text of a reply
GeneratorValues ==
    {FollowsPrompt, StructuredLines, UntitledForeign, IngredientsNoArray,
     JsonNull}

\* what an axios.post to the text-generation service can come to: it throws
\* (timeout, transport failure, non-2xx), the reply has no candidate, the
\* candidate has no content (candidates[0].content.parts[0].text throws a
\* TypeError), the candidate text does not parse, or it parses
GeneratorOutcomes ==
    {[kind |-> k] : k \in {"throws", "no candidate", "no content",
                           "unparseable"}}
    \cup {[kind |-> "parsed", json |-> v] : v \in GeneratorValues}

\* a call that never throws
ThrowsNothing(reply) == FALSE

\* the await of the call, or the read of the candidate's text outside the
\* inner try (lines 483, 572), throws into the catch of line 633
Throws(reply) == reply.kind \in {"throws", "no content"}

\* lines 492-508: the recipe the handler makes up when the stage 1 text does
\* not parse
syntheticRecipe(ingredients) ==
    Recipe("Quick Recipe",
           JsonArray([i \in 1..Len(ingredients) |->
                         JsonString(Some \o <<" ">> \o ingredients[i])]),
           PlaceholderNutrition)

\* lines 485-509: initialRecipe
stage1Recipe(reply, ingredients) ==
    IF reply.kind = "parsed" THEN reply.json ELSE syntheticRecipe(ingredients)

\* lines 580-588: if (!finalRecipe.nutrition) finalRecipe.nutrition = {...}
fillNutrition(recipe) ==
    IF recipe.nutrition.type \in {"undefined", "null"}
    THEN [recipe EXCEPT !.nutrition = PlaceholderNutrition]
    ELSE recipe

\* lines 570-593: finalRecipe after the stage 2 reply. A text that parses to
\* null is assigned before finalRecipe.nutrition throws inside the try
stage2Recipe(reply, initialRecipe) ==
    IF reply.kind = "parsed"
    THEN IF reply.json.type = "object" THEN fillNutrition(reply.json)
         ELSE reply.json
    ELSE initialRecipe

\* a || b on strings
Or(a, b) == IF a # <<>> THEN a ELSE b

\* `${amount} ${unit} ${name}`.trim()
Spaced(amount, unit, name) ==
    trim(amount \o <<" ">> \o unit \o <<" ">> \o name)

\* a map that leaves every line as the service wrote it
lineAsGiven(ing) == ing

\* lines 598-622, the function mapped over finalRecipe.ingredients: a string
\* stays, an object becomes "amount unit name" from the first of its
\* properties that is set (or from another string property, or its
\* JSON.stringify), anything else its String()
flatIngredient(ing) ==
    IF ing.type = "string" THEN ing
    ELSE IF ing.type = "object"
    THEN LET amount == Or(ing.amount, ing.quantity)
             unit == Or(ing.unit, ing.measurement)
             name == Or(Or(Or(ing.name, ing.ingredient), ing.item), ing.food)
         IN  IF name = <<>>
             THEN IF ing.note # <<>>
                  THEN JsonString(Spaced(amount, unit, ing.note))
                  ELSE JsonString(<<"{", "}">>)
             ELSE JsonString(Spaced(amount, unit, name))
    ELSE IF ing.type = "null" THEN JsonString(<<"n","u","l","l">>)
    ELSE JsonString(ing.text)

\* lines 596-623: the lines are mapped when finalRecipe.ingredients is an
\* array, and left alone when it is not
flatIngredients(recipe) ==
    IF recipe.ingredients.type = "array"
    THEN [recipe EXCEPT !.ingredients =
              JsonArray([i \in 1..Len(recipe.ingredients.items) |->
                            flatIngredient(recipe.ingredients.items[i])])]
    ELSE recipe

\* lines 626-631
Generated(recipe) ==
    [status |-> 200, found |-> TRUE, fromDatabase |-> FALSE,
     source |-> "ai-generated", recipe |-> recipe]

(***************************************************************************)
(* POST /api/recipes/match (src/index.js:262-717)                          *)
(***************************************************************************)
\* ingredients.map(ing => getCoreIngredient(ing.toLowerCase())); the sort()
\* of line 274 only reorders the array, which the query uses through
\* = ANY($1) and .length
coreIngredients(ingredients) ==
    [i \in 1..Len(ingredients) |-> MatchCoreOf[ingredients[i]]]

\* a read of the views without WHERE device_id = $1
viewedByAnyone(v, deviceId) == {row.recipe_id : row \in v.recipe_views}

\* SELECT DISTINCT recipe_id FROM recipe_views WHERE device_id = $1
viewedRecipes(v, deviceId) ==
    {row.recipe_id : row \in {w \in v.recipe_views : w.device_id = deviceId}}

\* a read of the submissions that finds none
submittedByNobody(v, deviceId) == {}

\* SELECT DISTINCT id FROM recipes WHERE submitted_by = $1
submittedRecipes(v, deviceId) ==
    {row.id : row \in {r \in v.recipes : r.submitted_by = deviceId}}

\* an exclusion that forgets the device's own submissions
excludedOnlyViewed(viewed, submitted) == viewed

\* an exclusion that forgets the recipes the device has seen
excludedOnlySubmitted(viewed, submitted) == submitted

\* [...viewedRecipes.rows.map(...), ...submittedRecipes.rows.map(...)]: the
\* query uses the array through = ANY($2) only, so as a set
excludedRecipeIds(viewed, submitted) == viewed \cup submitted

\* the ingredients rows joined to recipe r through recipe_ingredients
JoinedIngredients(v, r) ==
    {i \in v.ingredients :
        \E ri \in v.recipe_ingredients :
            ri.recipe_id = r.id /\ ri.ingredient_id = i.id}

\* COUNT(DISTINCT i.id)
total_ingredients(v, r) ==
    Cardinality({i.id : i \in JoinedIngredients(v, r)})

\* COUNT(DISTINCT CASE WHEN LOWER(i.name) = ANY($1::text[]) THEN i.id END)
matched_ingredients(v, r, core) ==
    Cardinality({i.id : i \in {j \in JoinedIngredients(v, r) :
                                  toLowerCase(j.name) \in Range(core)}})

\* a WHERE clause without total_ingredients = $3: every query ingredient is
\* in the recipe, which may have more
matchRowsOverlap(v, core, excluded) ==
    {r \in v.recipes :
        /\ r.id \notin excluded
        /\ JoinedIngredients(v, r) # {}
        /\ matched_ingredients(v, r, core) = Len(core)}

\* the rows of recipe_ingredient_counts that pass the WHERE clauses: the CTE
\* has a row only for a recipe with at least one joined ingredient, and
\* $3 (or $2) is coreIngredients.length
matchRows(v, core, excluded) ==
    {r \in v.recipes :
        /\ r.id \notin excluded
        /\ JoinedIngredients(v, r) # {}
        /\ total_ingredients(v, r) = Len(core)
        /\ matched_ingredients(v, r, core) = Len(core)}

\* ORDER BY average_rating, rating_count without DESC
SortsBeforeAscending(a, b) ==
    \/ RationalGreater(b.average_rating, a.average_rating)
    \/ /\ a.average_rating = b.average_rating
       /\ a.rating_count < b.rating_count

\* ORDER BY average_rating DESC, rating_count DESC: a sorts strictly before b
\* (DESC puts NULL first)
SortsBefore(a, b) ==
    \/ a.average_rating = NullAverage /\ b.average_rating # NullAverage
    \/ /\ a.average_rating # NullAverage
       /\ b.average_rating # NullAverage
       /\ RationalGreater(a.average_rating, b.average_rating)
    \/ /\ a.average_rating = b.average_rating
       /\ a.rating_count > b.rating_count

\* LIMIT 1: the rows the query may return, any row no other row sorts before
matchQuery(v, core, excluded) ==
    LET rows == matchRows(v, core, excluded)
    IN  {r \in rows : \A o \in rows : ~SortsBefore(o, r)}

MatchError == [status |-> 500, error |-> "Failed to match recipe"]

GenerationError ==
    [status |-> 500, error |-> "Failed to generate recipe. Please try again.",
     found |-> FALSE]

\* the bodies of the match requests: the valid ones and one without
\* ingredients
MatchRequests ==
    {[kind |-> "match", ingredients |-> ingredients, deviceId |-> deviceId] :
        ingredients \in IngredientQueryInputs, deviceId \in DeviceInputs}
    \cup {[kind |-> "match", ingredients |-> <<>>, deviceId |-> "d1"]}

\* a validation that lets every ingredients value through
ingredientsAnything(ingredients) == FALSE

\* lines 266 and 1463: !ingredients || !Array.isArray(ingredients) ||
\* ingredients.length === 0; <<>> stands for each of the three
ingredientsMissing(ingredients) == Len(ingredients) = 0

\* the handler up to the first await, for a request body out of `requests`:
\* validation, coreIngredients, and the first statement issued
StartMatchWith(p, requests) ==
    /\ CanStart(p)
    /\ \E r \in requests :
        /\ req' = [req EXCEPT ![p] = r]
        /\ IF ingredientsMissing(r.ingredients)
           THEN Respond(p, [status |-> 400, error |-> "Ingredients array required"])
           ELSE Accept(p, IF r.deviceId # "" THEN "match_viewed" ELSE "match_query",
                       [coreIngredients |-> coreIngredients(r.ingredients),
                        viewed |-> {}, excludedRecipeIds |-> {},
                        recipe |-> NoRecipe, initialRecipe |-> Undefined])
    /\ nreq' = nreq + 1
    /\ calls' = [calls EXCEPT ![p] = NoCalls]
    /\ UNCHANGED <<db, tx, returned, GEMINI_API_KEY, poolExhausted>>

\* a match request arrives
StartMatch(p) == StartMatchWith(p, MatchRequests)

\* lines 288-291
MatchViewed(p) ==
    /\ pc[p] = "match_viewed"
    /\ \E fail \in Failing, c \in PoolClients(p) :
        IF fail
        THEN Respond(p, MatchError) /\ Failed(c)
        ELSE /\ GotoWith(p, "match_submitted",
                         [loc[p] EXCEPT !.viewed =
                              viewedRecipes(View(c), req[p].deviceId)])
             /\ UNCHANGED <<db, tx>>
    /\ UNCHANGED <<req, nreq, returned, GEMINI_API_KEY, poolExhausted, calls>>

\* lines 297-308
MatchSubmitted(p) ==
    /\ pc[p] = "match_submitted"
    /\ \E fail \in Failing, c \in PoolClients(p) :
        IF fail
        THEN Respond(p, MatchError) /\ Failed(c)
        ELSE /\ GotoWith(p, "match_query",
                         [loc[p] EXCEPT !.excludedRecipeIds =
                              excludedRecipeIds(loc[p].viewed,
                                  submittedRecipes(View(c), req[p].deviceId))])
             /\ UNCHANGED <<db, tx>>
    /\ UNCHANGED <<req, nreq, returned, GEMINI_API_KEY, poolExhausted, calls>>

\* { found: true, recipe: formattedRecipe, fromDatabase: true }; viewLog is
\* not part of the body: it is what the view write of lines 665-684 put on
\* the console ("none": no deviceId, no write)
MatchHit(recipe, viewLog) ==
    [status |-> 200, found |-> TRUE, fromDatabase |-> TRUE,
     recipe |-> [id |-> recipe.id, title |-> recipe.title,
                 rating |-> recipe.average_rating,
                 ratingCount |-> recipe.rating_count],
     viewLog |-> viewLog]

\* lines 399-402
NotConfigured ==
    [status |-> 500, error |-> "Recipe generation service not configured"]

\* a handler that takes every answer of the match query for a miss
noRowsEver(rows) == TRUE

\* line 392: result.rows.length === 0
noRows(rows) == rows = {}

\* line 390 and what follows it. On no row: the API-key check and the
\* stage 1 call being issued. On a row: the three reads of lines 648-661
\* (ingredient lines, instructions, nutrition; they write nothing and the
\* model does not keep what they return), and without deviceId the response
MatchQuery(p) ==
    /\ pc[p] = "match_query"
    /\ \E fail \in Failing, c \in PoolClients(p) :
        IF fail
        THEN Respond(p, MatchError) /\ Failed(c) /\ UNCHANGED calls
        ELSE /\ LET rows == matchQuery(View(c), loc[p].coreIngredients,
                                       loc[p].excludedRecipeIds)
                IN  IF noRows(rows)
                    THEN IF GEMINI_API_KEY
                         THEN /\ Goto(p, "match_stage1")
                              /\ calls' = [calls EXCEPT ![p].stage1 = @ + 1]
                         ELSE /\ Respond(p, NotConfigured)
                              /\ UNCHANGED calls
                    ELSE /\ \E r \in rows :
                                IF req[p].deviceId # ""
                                THEN GotoWith(p, "match_view",
                                              [loc[p] EXCEPT !.recipe = r])
                                ELSE Respond(p, MatchHit(r, "none"))
                         /\ UNCHANGED calls
             /\ UNCHANGED <<db, tx>>
    /\ UNCHANGED <<req, nreq, returned, GEMINI_API_KEY, poolExhausted>>

\* a view write that inserts nothing
recordViewDropped(v, recipeId, deviceId) == {}

\* a view write without ON CONFLICT: a row is inserted whatever the table holds
recordViewAlways(v, recipeId, deviceId) ==
    {[id |-> NextId("recipe_views"), recipe_id |-> recipeId,
      device_id |-> deviceId, rating |-> NullRating]}

\* INSERT INTO recipe_views (recipe_id, device_id) VALUES ($1, $2)
\* ON CONFLICT DO NOTHING RETURNING id: the rows inserted
recordView(v, recipeId, deviceId) ==
    IF \E w \in v.recipe_views :
           w.recipe_id = recipeId /\ w.device_id = deviceId
    THEN {}
    ELSE {[id |-> NextId("recipe_views"), recipe_id |-> recipeId,
           device_id |-> deviceId, rating |-> NullRating]}

\* a handler whose view write fails the request
viewErrorFails(recipe) == MatchError

\* lines 680-711: catch (viewError) logs, and the handler goes on to the
\* response
afterViewError(recipe) == MatchHit(recipe, "Failed to record recipe view")

\* a handler whose view write is INSERT ... ON CONFLICT (recipe_id,
\* device_id) DO UPDATE SET rating = NULL: the row of the pair is replaced
MatchViewOverwrites(p) ==
    /\ pc[p] = "match_view"
    /\ \E fail \in Failing, c \in PoolClients(p) :
        /\ ~Waits(c, "recipe_views", {<<loc[p].recipe.id, req[p].deviceId>>})
        /\ \E old \in {{w \in View(c).recipe_views :
                           /\ w.recipe_id = loc[p].recipe.id
                           /\ w.device_id = req[p].deviceId}} :
            IF fail
            THEN /\ Respond(p, afterViewError(loc[p].recipe))
                 /\ Failed(c)
            ELSE /\ Respond(p, MatchHit(loc[p].recipe, "Recorded new view"))
                 /\ Write(c, "recipe_views", old,
                          IF old = {}
                          THEN recordView(View(c), loc[p].recipe.id, req[p].deviceId)
                          ELSE {[w EXCEPT !.rating = NullRating] : w \in old})
    /\ returned' = [returned EXCEPT ![req[p].deviceId][loc[p].recipe.id] = @ + 1]
    /\ UNCHANGED <<req, nreq, GEMINI_API_KEY, poolExhausted, calls>>

\* lines 665-711: the view write inside its own try/catch (a failure is
\* logged and the request goes on), then the response
MatchView(p) ==
    /\ pc[p] = "match_view"
    /\ \E fail \in Failing, c \in PoolClients(p) :
        /\ ~Waits(c, "recipe_views", {<<loc[p].recipe.id, req[p].deviceId>>})
        /\ \E rows \in {recordView(View(c), loc[p].recipe.id, req[p].deviceId)} :
            IF fail
            THEN /\ Respond(p, afterViewError(loc[p].recipe))
                 /\ Failed(c)
            ELSE /\ Respond(p, MatchHit(loc[p].recipe,
                                        IF rows # {} THEN "Recorded new view"
                                        ELSE "View already exists"))
                 /\ Write(c, "recipe_views", {}, rows)
    /\ returned' = [returned EXCEPT ![req[p].deviceId][loc[p].recipe.id] = @ + 1]
    /\ UNCHANGED <<req, nreq, GEMINI_API_KEY, poolExhausted, calls>>

\* lines 440-568: the stage 1 reply. The call throwing, a reply without
\* candidate or a candidate without text end the request in the catch of
\* line 633; a text that does not parse is replaced by the synthetic recipe;
\* then the stage 2 call is issued with initialRecipe in its prompt
MatchStage1(p) ==
    /\ pc[p] = "match_stage1"
    /\ \E reply \in GeneratorOutcomes :
        IF Throws(reply) \/ reply.kind = "no candidate"
        THEN /\ Respond(p, GenerationError)
             /\ calls' = [calls EXCEPT ![p].reply1 = reply]
        ELSE /\ GotoWith(p, "match_stage2",
                         [loc[p] EXCEPT !.initialRecipe =
                              stage1Recipe(reply, req[p].ingredients)])
             /\ calls' = [calls EXCEPT ![p].reply1 = reply,
                                       ![p].stage2 = @ + 1]
    /\ UNCHANGED <<db, tx, req, nreq, returned, GEMINI_API_KEY, poolExhausted>>

\* a handler that records a view of what it generated: a row of recipe_views
\* for the device under the next recipe id
MatchStage2Recorded(p) ==
    /\ pc[p] = "match_stage2"
    /\ \E reply \in GeneratorOutcomes :
        /\ \E finalRecipe \in {stage2Recipe(reply, loc[p].initialRecipe)} :
            IF Throws(reply) \/ finalRecipe.type # "object"
            THEN Respond(p, GenerationError) /\ UNCHANGED db
            ELSE /\ Respond(p, Generated(flatIngredients(finalRecipe)))
                 /\ db' = [db EXCEPT !.recipe_views = @ \cup
                              recordView(db, NextId("recipes"), req[p].deviceId)]
        /\ calls' = [calls EXCEPT ![p].reply2 = reply]
    /\ UNCHANGED <<tx, req, nreq, returned, GEMINI_API_KEY, poolExhausted>>

\* lines 570-639: the stage 2 reply and the response. finalRecipe being null
\* makes line 596 throw into the catch of line 633
MatchStage2(p) ==
    /\ pc[p] = "match_stage2"
    /\ \E reply \in GeneratorOutcomes :
        /\ \E finalRecipe \in {stage2Recipe(reply, loc[p].initialRecipe)} :
            IF Throws(reply) \/ finalRecipe.type # "object"
            THEN Respond(p, GenerationError)
            ELSE Respond(p, Generated(flatIngredients(finalRecipe)))
        /\ calls' = [calls EXCEPT ![p].reply2 = reply]
    /\ UNCHANGED <<db, tx, req, nreq, returned, GEMINI_API_KEY, poolExhausted>>

MatchSteps(p) ==
    \/ MatchViewed(p)
    \/ MatchSubmitted(p)
    \/ MatchQuery(p)
    \/ MatchView(p)

(***************************************************************************)
(* POST /api/recipes/generate (src/index.js:1458-1669): the two stages     *)
(* without the store                                                       *)
(***************************************************************************)
\* lines 1662-1665
GenerateError ==
    [status |-> 500, error |-> "Failed to generate recipe. Please try again.",
     source |-> "gemini"]

\* lines 1632-1636, 1640-1644, 1649-1653
GenerateSuccess(recipe, source) ==
    [status |-> 200, success |-> TRUE, recipe |-> recipe, source |-> source]

\* the bodies of the generate requests: valid ones, one without ingredients
\* and one without deviceId
GenerateRequests ==
    {[kind |-> "generate", ingredients |-> ingredients, deviceId |-> "d1"] :
        ingredients \in {<<Rice>>, <<Rice, WhiteRice>>, <<>>}}
    \cup {[kind |-> "generate", ingredients |-> <<Rice>>, deviceId |-> ""]}

\* lines 1538-1545: the synthetic recipe of this endpoint has no nutrition
generateSyntheticRecipe(ingredients) ==
    [syntheticRecipe(ingredients) EXCEPT !.nutrition = Undefined]

\* lines 1458-1528: validation, the API-key check and the stage 1 call
StartGenerate(p) ==
    /\ CanStart(p)
    /\ \E r \in GenerateRequests :
        /\ req' = [req EXCEPT ![p] = r]
        /\ IF ingredientsMissing(r.ingredients)
           THEN /\ Respond(p, [status |-> 400, error |-> "Ingredients are required"])
                /\ calls' = [calls EXCEPT ![p] = NoCalls]
           ELSE IF r.deviceId = ""
           THEN /\ Respond(p, [status |-> 400, error |-> "Device ID is required"])
                /\ calls' = [calls EXCEPT ![p] = NoCalls]
           ELSE IF ~GEMINI_API_KEY
           THEN /\ Respond(p, NotConfigured)
                /\ calls' = [calls EXCEPT ![p] = NoCalls]
           ELSE /\ Accept(p, "generate_stage1", [initialRecipe |-> Undefined])
                /\ calls' = [calls EXCEPT ![p] = [NoCalls EXCEPT !.stage1 = 1]]
    /\ nreq' = nreq + 1
    /\ UNCHANGED <<db, tx, returned, GEMINI_API_KEY, poolExhausted>>

\* lines 1530-1607: the stage 1 reply, then the stage 2 call
GenerateStage1(p) ==
    /\ pc[p] = "generate_stage1"
    /\ \E reply \in GeneratorOutcomes :
        IF Throws(reply) \/ reply.kind = "no candidate"
        THEN /\ Respond(p, GenerateError)
             /\ calls' = [calls EXCEPT ![p].reply1 = reply]
        ELSE /\ GotoWith(p, "generate_stage2",
                         [loc[p] EXCEPT !.initialRecipe =
                              IF reply.kind = "parsed" THEN reply.json
                              ELSE generateSyntheticRecipe(req[p].ingredients)])
             /\ calls' = [calls EXCEPT ![p].reply1 = reply,
                                       ![p].stage2 = @ + 1]
    /\ UNCHANGED <<db, tx, req, nreq, returned, GEMINI_API_KEY, poolExhausted>>

\* lines 1609-1667: the stage 2 reply and the response; a text that parses
\* to null makes finalRecipe.nutrition throw inside the try, which answers
\* with the stage 1 result
GenerateStage2(p) ==
    /\ pc[p] = "generate_stage2"
    /\ \E reply \in GeneratorOutcomes :
        /\ IF Throws(reply)
           THEN Respond(p, GenerateError)
           ELSE IF reply.kind = "parsed" /\ reply.json.type = "object"
           THEN Respond(p, GenerateSuccess(fillNutrition(reply.json),
                                           "gemini-2stage"))
           ELSE Respond(p, GenerateSuccess(loc[p].initialRecipe,
                                           "gemini-stage1"))
        /\ calls' = [calls EXCEPT ![p].reply2 = reply]
    /\ UNCHANGED <<db, tx, req, nreq, returned, GEMINI_API_KEY, poolExhausted>>

\* the steps of the generation path of either endpoint
GenerateSteps(p) ==
    \/ MatchStage1(p)
    \/ MatchStage2(p)
    \/ GenerateStage1(p)
    \/ GenerateStage2(p)

(***************************************************************************)
(* POST /api/recipes/:id/rate (src/index.js:1118-1173) and                 *)
(* POST /api/user-rating (src/index.js:1671-1731)                          *)
(***************************************************************************)
\* :id and recipeId of the rating requests: ids of recipes that may exist
RecipeIdInputs == 1..MaxRecipes

\* a recipeId that is not a number (the id of a generated recipe)
NonNumericId == -1

\* a missing recipeId
MissingId == 0

\* INSERT INTO recipe_views (recipe_id, device_id, rating) ... ON CONFLICT
\* (recipe_id, device_id) DO UPDATE SET rating = $3: the rows removed and
\* added
ratingUpsert(v, recipeId, deviceId, rating) ==
    LET old == {w \in v.recipe_views :
                   w.recipe_id = recipeId /\ w.device_id = deviceId}
    IN  IF old = {}
        THEN [del |-> {},
              add |-> {[id |-> NextId("recipe_views"), recipe_id |-> recipeId,
                        device_id |-> deviceId, rating |-> rating]}]
        ELSE [del |-> old, add |-> {[w EXCEPT !.rating = rating] : w \in old}]

\* statistics without AND rating IS NOT NULL: COUNT(DISTINCT device_id)
\* counts every device with a row, AVG still skips the NULL ratings
ratingStatsAllViewers(v, recipeId) ==
    LET rows  == {w \in v.recipe_views : w.recipe_id = recipeId}
        rated == {w \in rows : w.rating # NullRating}
    IN  [total_ratings |-> Cardinality({w.device_id : w \in rows}),
         avg_rating |-> IF rated = {} THEN NullAverage
                        ELSE Rational(SumRatings(rated), Cardinality(rated))]

\* SELECT COUNT(DISTINCT device_id), AVG(rating) FROM recipe_views
\* WHERE recipe_id = $1 AND rating IS NOT NULL
ratingStats(v, recipeId) ==
    LET rated == {w \in v.recipe_views :
                     w.recipe_id = recipeId /\ w.rating # NullRating}
    IN  [total_ratings |-> Cardinality({w.device_id : w \in rated}),
         avg_rating |-> IF rated = {} THEN NullAverage
                        ELSE Rational(SumRatings(rated), Cardinality(rated))]

\* the rows of recipes with this id
RecipeRows(v, recipeId) == {r \in v.recipes : r.id = recipeId}

RateError == [status |-> 500, error |-> "Internal server error"]

\* the rating requests of either endpoint: the valid ones, and one for each
\* way to fail validation
RatingRequests(kind) ==
    {[kind |-> kind, id |-> id, rating |-> rating, deviceId |-> deviceId] :
        id \in RecipeIdInputs, rating \in RatingInputs, deviceId \in Devices}
    \cup {[kind |-> kind, id |-> 1, rating |-> rating, deviceId |-> "d1"] :
            rating \in {0, 6}}
    \cup {[kind |-> kind, id |-> 1, rating |-> 5, deviceId |-> ""]}

StartRate(p) ==
    /\ CanStart(p)
    /\ \E r \in RatingRequests("rate") :
        /\ req' = [req EXCEPT ![p] = r]
        /\ IF r.rating = 0 \/ r.rating < 1 \/ r.rating > 5
           THEN Respond(p, [status |-> 400, error |-> "Rating must be between 1 and 5"])
           ELSE IF r.deviceId = ""
           THEN Respond(p, [status |-> 400, error |-> "Device ID is required"])
           ELSE Accept(p, "rate_upsert",
                       [stats |-> ratingStats(EmptyDb, 0), prior |-> NullRating])
    /\ nreq' = nreq + 1
    /\ calls' = [calls EXCEPT ![p] = NoCalls]
    /\ UNCHANGED <<db, tx, returned, GEMINI_API_KEY, poolExhausted>>

\* the rating the device's row of the recipe carries (NULL without a row)
priorRating(v, recipeId, deviceId) ==
    LET old == {w \in v.recipe_views :
                   w.recipe_id = recipeId /\ w.device_id = deviceId}
    IN  IF old = {} THEN NullRating ELSE (CHOOSE w \in old : TRUE).rating

\* lines 1134-1140; loc.prior is history: the rating the upsert has
\* overwritten
RateUpsert(p) ==
    /\ pc[p] = "rate_upsert"
    /\ \E fail \in Failing, c \in PoolClients(p) :
        /\ ~Waits(c, "recipe_views", {<<req[p].id, req[p].deviceId>>})
        /\ \E w \in {ratingUpsert(View(c), req[p].id, req[p].deviceId,
                                  req[p].rating)} :
            IF fail \/ RecipeRows(View(c), req[p].id) = {}
            THEN Respond(p, RateError) /\ Failed(c)
            ELSE /\ Write(c, "recipe_views", w.del, w.add)
                 /\ GotoWith(p, "rate_stats",
                             [loc[p] EXCEPT !.prior =
                                  priorRating(View(c), req[p].id,
                                              req[p].deviceId)])
    /\ UNCHANGED <<req, nreq, returned, GEMINI_API_KEY, poolExhausted, calls>>

\* lines 1143-1150
RateStats(p) ==
    /\ pc[p] = "rate_stats"
    /\ \E fail \in Failing, c \in PoolClients(p) :
        IF fail
        THEN Respond(p, RateError) /\ Failed(c)
        ELSE /\ GotoWith(p, "rate_update",
                         [loc[p] EXCEPT !.stats =
                              ratingStats(View(c), req[p].id)])
             /\ UNCHANGED <<db, tx>>
    /\ UNCHANGED <<req, nreq, returned, GEMINI_API_KEY, poolExhausted, calls>>

\* a handler that takes every rating for five stars
anyStars(rating) == TRUE

\* line 1160: if (rating === 5)
fiveStars(rating) == rating = 5

\* lines 1152-1158, then the response unless rating === 5
RateUpdate(p) ==
    /\ pc[p] = "rate_update"
    /\ \E fail \in Failing, c \in PoolClients(p) :
        /\ ~Waits(c, "recipes", {req[p].id})
        /\ \E old \in {RecipeRows(View(c), req[p].id)} :
            IF fail
            THEN Respond(p, RateError) /\ Failed(c)
            ELSE /\ Write(c, "recipes", old,
                          {[r EXCEPT !.rating_count = loc[p].stats.total_ratings,
                                     !.average_rating = loc[p].stats.avg_rating]
                              : r \in old})
                 /\ IF fiveStars(req[p].rating)
                    THEN Goto(p, "rate_submitted")
                    ELSE Respond(p, [status |-> 200, success |-> TRUE])
    /\ UNCHANGED <<req, nreq, returned, GEMINI_API_KEY, poolExhausted, calls>>

\* an UPDATE without AND submitted_by IS NULL
unsubmittedOrNot(v, recipeId) == RecipeRows(v, recipeId)

\* the rows of WHERE id = $2 AND submitted_by IS NULL
unsubmitted(v, recipeId) ==
    {r \in RecipeRows(v, recipeId) : r.submitted_by = NullDevice}

\* lines 1161-1168: UPDATE recipes SET submitted_by = $1 WHERE id = $2 AND
\* submitted_by IS NULL
RateSubmitted(p) ==
    /\ pc[p] = "rate_submitted"
    /\ \E fail \in Failing, c \in PoolClients(p) :
        /\ ~Waits(c, "recipes", {req[p].id})
        /\ \E old \in {unsubmitted(View(c), req[p].id)} :
            IF fail
            THEN Respond(p, RateError) /\ Failed(c)
            ELSE /\ Write(c, "recipes", old,
                          {[r EXCEPT !.submitted_by = req[p].deviceId] : r \in old})
                 /\ Respond(p, [status |-> 200, success |-> TRUE])
    /\ UNCHANGED <<req, nreq, returned, GEMINI_API_KEY, poolExhausted, calls>>

RateSteps(p) ==
    \/ RateUpsert(p)
    \/ RateStats(p)
    \/ RateUpdate(p)
    \/ RateSubmitted(p)

SavedLocally == [status |-> 200, success |-> TRUE, message |-> "Rating saved locally"]

StartUserRating(p) ==
    /\ CanStart(p)
    /\ \E r \in RatingRequests("user-rating")
              \cup {[kind |-> "user-rating", id |-> id, rating |-> 5,
                     deviceId |-> "d1"] : id \in {MissingId, NonNumericId}} :
        /\ req' = [req EXCEPT ![p] = r]
        /\ IF r.id = MissingId \/ r.deviceId = "" \/ r.rating = 0
           THEN Respond(p, [status |-> 400, error |->
                               "Recipe ID, device ID, and rating are required"])
           ELSE IF r.rating < 1 \/ r.rating > 5
           THEN Respond(p, [status |-> 400, error |-> "Rating must be between 1 and 5"])
           ELSE IF r.id = NonNumericId
           THEN Respond(p, SavedLocally)
           ELSE Accept(p, "user_rating_upsert", <<>>)
    /\ nreq' = nreq + 1
    /\ calls' = [calls EXCEPT ![p] = NoCalls]
    /\ UNCHANGED <<db, tx, returned, GEMINI_API_KEY, poolExhausted>>

\* lines 1686-1695; a failure is caught at line 1715
UserRatingUpsert(p) ==
    /\ pc[p] = "user_rating_upsert"
    /\ \E fail \in Failing, c \in PoolClients(p) :
        /\ ~Waits(c, "recipe_views", {<<req[p].id, req[p].deviceId>>})
        /\ \E w \in {ratingUpsert(View(c), req[p].id, req[p].deviceId,
                                  req[p].rating)} :
            IF fail \/ RecipeRows(View(c), req[p].id) = {}
            THEN Respond(p, SavedLocally) /\ Failed(c)
            ELSE /\ Write(c, "recipe_views", w.del, w.add)
                 /\ Goto(p, "user_rating_stats")
    /\ UNCHANGED <<req, nreq, returned, GEMINI_API_KEY, poolExhausted, calls>>

\* lines 1698-1714: one UPDATE that recomputes both columns from recipe_views
UserRatingStats(p) ==
    /\ pc[p] = "user_rating_stats"
    /\ \E fail \in Failing, c \in PoolClients(p) :
        /\ ~Waits(c, "recipes", {req[p].id})
        /\ \E old \in {RecipeRows(View(c), req[p].id)},
              stats \in {ratingStats(View(c), req[p].id)} :
            IF fail
            THEN Respond(p, SavedLocally) /\ Failed(c)
            ELSE /\ Write(c, "recipes", old,
                          {[r EXCEPT !.rating_count = stats.total_ratings,
                                     !.average_rating = stats.avg_rating]
                              : r \in old})
                 /\ Respond(p, [status |-> 200, success |-> TRUE,
                                rating |-> req[p].rating])
    /\ UNCHANGED <<req, nreq, returned, GEMINI_API_KEY, poolExhausted, calls>>

UserRatingSteps(p) ==
    \/ UserRatingUpsert(p)
    \/ UserRatingStats(p)

(***************************************************************************)
(* POST /api/recipes/save-favorite (src/index.js:720-921)                  *)
(*                                                                         *)
(* A statement that fails makes the pool close its connection, which       *)
(* aborts the open transaction; the ROLLBACK the handler then sends runs   *)
(* on another connection.                                                  *)
(***************************************************************************)
\* recipe.instructions: the number of steps of the array
InstructionSteps == 1

SaveError == [status |-> 500, error |-> "Failed to save recipe"]

\* the statement after the ingredient loop has handled line i
AfterIngredient(request, i) ==
    IF i < Len(request.ingredients) THEN "save_select_ingredient"
    ELSE "save_rest"

\* the bodies of the save-favorite requests: the valid ones, one without a
\* title and one with a rating other than 5
SaveRequests ==
    LET Body(title, ingredients, deviceId, rating) ==
            [kind |-> "save-favorite", title |-> title,
             ingredients |-> ingredients, instructions |-> InstructionSteps,
             deviceId |-> deviceId, rating |-> rating]
    IN  {Body(title, ingredients, deviceId, 5) :
            title \in TitleInputs, ingredients \in IngredientLineInputs,
            deviceId \in DeviceInputs}
        \cup {Body("", <<OneCupRice>>, "d1", 5),
              Body("Test Soup", <<OneCupRice>>, "d1", 3)}

StartSaveWith(p, requests) ==
    /\ CanStart(p)
    /\ \E r \in requests :
        /\ \/ \E s \in db.recipes : s.title = r.title
           \/ Cardinality(db.recipes)
                + Cardinality({q \in Procs : pc[q] \notin {"idle", "done"}
                                             /\ req[q].kind = "save-favorite"})
                < MaxRecipes
        /\ req' = [req EXCEPT ![p] = r]
        /\ IF r.title = ""
           THEN Respond(p, [status |-> 400, error |-> "Recipe title is required"])
           ELSE IF r.rating # 5
           THEN Respond(p, [status |-> 400, error |->
                               "Only 5-star recipes can be saved as favorites"])
           ELSE Accept(p, "save_begin",
                       [recipeId |-> 0, i |-> 0, coreIngredient |-> <<>>,
                        ingredientId |-> 0])
    /\ nreq' = nreq + 1
    /\ calls' = [calls EXCEPT ![p] = NoCalls]
    /\ UNCHANGED <<db, tx, returned, GEMINI_API_KEY, poolExhausted>>

\* a save-favorite request arrives
StartSave(p) == StartSaveWith(p, SaveRequests)

\* a statement of the inner try has failed on client c, which is closed; the
\* catch block issues its ROLLBACK
SaveFailed(p, c) ==
    /\ Failed(c)
    /\ GotoWith(p, "save_rollback", <<>>)

\* a catch block that rolls back and sends nothing
SaveRollbackSilent(p) ==
    /\ pc[p] = "save_rollback"
    /\ \E c \in PoolClients(p) : Rollback(c)
    /\ GotoWith(p, "save_unanswered", <<>>)
    /\ UNCHANGED <<req, nreq, returned, GEMINI_API_KEY, poolExhausted, calls>>

\* lines 912-919: the ROLLBACK on the client the pool hands it, and the
\* error response. A ROLLBACK that fails closes the client, which ends the
\* transaction open on it as well, and its error reaches the same response
SaveRollback(p) ==
    /\ pc[p] = "save_rollback"
    /\ \E c \in PoolClients(p) : Rollback(c)
    /\ Respond(p, SaveError)
    /\ UNCHANGED <<req, nreq, returned, GEMINI_API_KEY, poolExhausted, calls>>

\* lines 736-745: BEGIN, then SELECT id FROM recipes WHERE title = $1. A
\* BEGIN that fails is outside the inner try: the error response follows
\* without a ROLLBACK
SaveSelectTitle(p) ==
    /\ pc[p] = "save_begin"
    /\ \E fail \in Failing, c \in PoolClients(p) :
        IF fail
        THEN \/ Failed(c) /\ Respond(p, SaveError)
             \/ SaveFailed(p, c)
        ELSE /\ Begin(c)
             /\ \E existingRecipe \in {{r \in View(c).recipes :
                                          r.title = req[p].title}} :
                 IF existingRecipe # {}
                 THEN \E r \in existingRecipe :
                          GotoWith(p, "save_update_existing",
                                   [loc[p] EXCEPT !.recipeId = r.id])
                 ELSE Goto(p, "save_insert_recipe")
    /\ UNCHANGED <<req, nreq, returned, GEMINI_API_KEY, poolExhausted, calls>>

\* UPDATE recipes SET rating_count = rating_count + 1, average_rating =
\* ((average_rating * rating_count) + $1) / (rating_count + 1): the new row
existingRated(r, rating) ==
    [r EXCEPT !.rating_count = r.rating_count + 1,
              !.average_rating =
                  IF r.average_rating = NullAverage THEN NullAverage
                  ELSE Rational(r.average_rating[1] * r.rating_count
                                  + rating * r.average_rating[2],
                                r.average_rating[2] * (r.rating_count + 1))]

\* lines 747-750
SaveUpdateExisting(p) ==
    /\ pc[p] = "save_update_existing"
    /\ \E fail \in Failing, c \in PoolClients(p) :
        /\ ~Waits(c, "recipes", {loc[p].recipeId})
        /\ \E old \in {RecipeRows(View(c), loc[p].recipeId)} :
            IF fail
            THEN SaveFailed(p, c)
            ELSE /\ Write(c, "recipes", old,
                          {existingRated(r, req[p].rating) : r \in old})
                 /\ Goto(p, "save_commit_existing")
    /\ UNCHANGED <<req, nreq, returned, GEMINI_API_KEY, poolExhausted, calls>>

\* lines 752-757
SaveCommitExisting(p) ==
    /\ pc[p] = "save_commit_existing"
    /\ \E fail \in Failing, c \in PoolClients(p) :
        IF fail
        THEN SaveFailed(p, c)
        ELSE /\ Commit(c)
             /\ Respond(p, [status |-> 200, success |-> TRUE,
                            message |-> "Recipe rating updated",
                            recipeId |-> loc[p].recipeId])
    /\ UNCHANGED <<req, nreq, returned, GEMINI_API_KEY, poolExhausted, calls>>

\* INSERT INTO recipes (..., average_rating, rating_count, submitted_by)
\* VALUES (..., 5.0, 1, deviceId || null): the new row
newRecipe(recipeId, request) ==
    [id |-> recipeId, title |-> request.title,
     average_rating |-> Rational(5, 1), rating_count |-> 1,
     submitted_by |-> IF request.deviceId # "" THEN request.deviceId
                      ELSE NullDevice]

\* lines 784-804
SaveInsertRecipe(p) ==
    /\ pc[p] = "save_insert_recipe"
    /\ \E fail \in Failing, c \in PoolClients(p), recipeId \in {NextId("recipes")} :
        IF fail
        THEN SaveFailed(p, c)
        ELSE /\ Write(c, "recipes", {}, {newRecipe(recipeId, req[p])})
             /\ GotoWith(p, AfterIngredient(req[p], 0),
                         [loc[p] EXCEPT !.recipeId = recipeId, !.i = 0])
    /\ UNCHANGED <<req, nreq, returned, GEMINI_API_KEY, poolExhausted, calls>>

\* lines 832-835: INSERT INTO recipe_ingredients
LinkIngredient(recipeId, ingredientId) ==
    [recipe_id |-> recipeId, ingredient_id |-> ingredientId]

\* SELECT id FROM ingredients WHERE LOWER(name) = LOWER($1)
existingIngredient(v, coreIngredient) ==
    {g \in v.ingredients : toLowerCase(g.name) = toLowerCase(coreIngredient)}

\* lines 809-821 for the next line: parseIngredient, getCoreIngredient and
\* the SELECT; when a row is found, lines 832-835 with its id
SaveSelectIngredient(p) ==
    /\ pc[p] = "save_select_ingredient"
    /\ \E fail \in Failing, c \in PoolClients(p), i \in {loc[p].i + 1} :
        IF fail
        THEN SaveFailed(p, c)
        ELSE /\ \E coreIngredient \in {SaveCoreOf[req[p].ingredients[i]]} :
                 \E rows \in {existingIngredient(View(c), coreIngredient)} :
                     IF rows # {}
                     THEN \E g \in rows :
                              /\ Write(c, "recipe_ingredients", {},
                                       {LinkIngredient(loc[p].recipeId, g.id)})
                              /\ GotoWith(p, AfterIngredient(req[p], i),
                                          [loc[p] EXCEPT !.i = i,
                                               !.coreIngredient = coreIngredient,
                                               !.ingredientId = g.id])
                     ELSE /\ UNCHANGED <<db, tx>>
                          /\ GotoWith(p, "save_insert_ingredient",
                                      [loc[p] EXCEPT !.i = i,
                                           !.coreIngredient = coreIngredient])
    /\ UNCHANGED <<req, nreq, returned, GEMINI_API_KEY, poolExhausted, calls>>

\* the UNIQUE constraint on ingredients.name
IngredientNameTaken(v, name) == \E g \in v.ingredients : g.name = name

\* lines 824-835: INSERT INTO ingredients (name, category) ... RETURNING id,
\* then INSERT INTO recipe_ingredients with that id
SaveInsertIngredient(p) ==
    /\ pc[p] = "save_insert_ingredient"
    /\ \E fail \in Failing, c \in PoolClients(p),
          ingredientId \in {NextId("ingredients")} :
        /\ ~Waits(c, "ingredients", {loc[p].coreIngredient})
        /\ IF fail \/ IngredientNameTaken(View(c), loc[p].coreIngredient)
           THEN SaveFailed(p, c)
           ELSE /\ Insert(c, [EmptyDb EXCEPT
                        !.ingredients = {[id |-> ingredientId,
                                          name |-> loc[p].coreIngredient]},
                        !.recipe_ingredients =
                            {LinkIngredient(loc[p].recipeId, ingredientId)}])
                /\ GotoWith(p, AfterIngredient(req[p], loc[p].i),
                            [loc[p] EXCEPT !.ingredientId = ingredientId])
    /\ UNCHANGED <<req, nreq, returned, GEMINI_API_KEY, poolExhausted, calls>>

\* lines 840-896: the INSERTs into recipe_instructions (one per step),
\* recipe_nutrition, and with a deviceId recipe_usage and user_saved_recipes
\* (ON CONFLICT DO UPDATE), taken as one statement
SaveRest(p) ==
    /\ pc[p] = "save_rest"
    /\ \E fail \in Failing, c \in PoolClients(p) :
        IF fail
        THEN SaveFailed(p, c)
        ELSE /\ \E byDevice \in {IF req[p].deviceId # ""
                                 THEN {[recipe_id |-> loc[p].recipeId,
                                        device_id |-> req[p].deviceId,
                                        rating |-> req[p].rating]}
                                 ELSE {}} :
                 Insert(c, [EmptyDb EXCEPT
                     !.recipe_instructions =
                         {[recipe_id |-> loc[p].recipeId, step_number |-> j]
                             : j \in 1..req[p].instructions},
                     !.recipe_nutrition = {[recipe_id |-> loc[p].recipeId]},
                     !.recipe_usage = byDevice,
                     !.user_saved_recipes = byDevice])
             /\ Goto(p, "save_commit")
    /\ UNCHANGED <<req, nreq, returned, GEMINI_API_KEY, poolExhausted, calls>>

\* lines 899-910
SaveCommit(p) ==
    /\ pc[p] = "save_commit"
    /\ \E fail \in Failing, c \in PoolClients(p) :
        IF fail
        THEN SaveFailed(p, c)
        ELSE /\ Commit(c)
             /\ Respond(p, [status |-> 200, success |-> TRUE,
                            message |-> "Recipe saved and shared with community!",
                            recipeId |-> loc[p].recipeId])
    /\ UNCHANGED <<req, nreq, returned, GEMINI_API_KEY, poolExhausted, calls>>

SaveSteps(p) ==
    \/ SaveSelectTitle(p)
    \/ SaveUpdateExisting(p)
    \/ SaveCommitExisting(p)
    \/ SaveInsertRecipe(p)
    \/ SaveSelectIngredient(p)
    \/ SaveInsertIngredient(p)
    \/ SaveRest(p)
    \/ SaveCommit(p)
    \/ SaveRollback(p)

(***************************************************************************)
(* POST /api/migrate-device (src/index.js:1240-1285)                       *)
(***************************************************************************)
MigrateError == [status |-> 500, error |-> "Failed to migrate device"]

StartMigrateWith(p, deviceIds) ==
    /\ CanStart(p)
    /\ \E oldDeviceId \in deviceIds, newDeviceId \in deviceIds :
        /\ oldDeviceId # newDeviceId
        /\ req' = [req EXCEPT ![p] = [kind |-> "migrate-device",
                                      oldDeviceId |-> oldDeviceId,
                                      newDeviceId |-> newDeviceId]]
        /\ IF oldDeviceId = "" \/ newDeviceId = ""
           THEN Respond(p, [status |-> 400, error |->
                               "Old device ID and new device ID are required"])
           ELSE Accept(p, "migrate_views", <<>>)
    /\ nreq' = nreq + 1
    /\ calls' = [calls EXCEPT ![p] = NoCalls]
    /\ UNCHANGED <<db, tx, returned, GEMINI_API_KEY, poolExhausted>>

StartMigrate(p) == StartMigrateWith(p, DeviceInputs)

\* a statement of the inner try has failed on client c, which is closed; the
\* catch block issues its ROLLBACK
MigrateFailed(p, c) ==
    /\ Failed(c)
    /\ GotoWith(p, "migrate_rollback", <<>>)

\* lines 1276-1284: the ROLLBACK on the client the pool hands it, and the
\* error response. A ROLLBACK that fails closes the client, which ends the
\* transaction open on it as well, and its error reaches the same response
MigrateRollback(p) ==
    /\ pc[p] = "migrate_rollback"
    /\ \E c \in PoolClients(p) : Rollback(c)
    /\ Respond(p, MigrateError)
    /\ UNCHANGED <<req, nreq, returned, GEMINI_API_KEY, poolExhausted, calls>>

\* an UPDATE that writes the rows under the new device id and leaves the
\* rows of the old one in place
rekeyCopies(v, t, oldDeviceId, newDeviceId) ==
    [del |-> {},
     add |-> {[w EXCEPT !.device_id = newDeviceId] :
                 w \in {x \in v[t] : x.device_id = oldDeviceId}},
     keys |-> {},
     violation |-> FALSE]

\* an UPDATE ... SET device_id = $1 WHERE device_id = $2 on table t: the
\* rows replaced, the rows that replace them, the keys touched and whether
\* the table's UNIQUE constraint is violated
rekey(v, t, oldDeviceId, newDeviceId) ==
    LET old  == {w \in v[t] : w.device_id = oldDeviceId}
        new  == {[w EXCEPT !.device_id = newDeviceId] : w \in old}
        rest == v[t] \ old
    IN  [del |-> old, add |-> new,
         keys |-> {KeyOf(t, w) : w \in old \cup new},
         violation |-> \E w \in new, x \in rest : KeyOf(t, w) = KeyOf(t, x)]

\* lines 1249-1256: BEGIN, then UPDATE recipe_views SET device_id = $1
\* WHERE device_id = $2. A BEGIN that fails is outside the inner try: the
\* error response follows without a ROLLBACK
MigrateViews(p) ==
    /\ pc[p] = "migrate_views"
    /\ \E fail \in Failing, c \in PoolClients(p) :
        \E u \in {rekey(View(c), "recipe_views", req[p].oldDeviceId,
                        req[p].newDeviceId)} :
            /\ ~Waits(c, "recipe_views", u.keys)
            /\ IF fail \/ u.violation
               THEN \/ fail /\ Failed(c) /\ Respond(p, MigrateError)
                    \/ MigrateFailed(p, c)
               ELSE /\ tx' = [tx EXCEPT ![c] =
                                 TxWrite([@ EXCEPT !.active = TRUE],
                                         "recipe_views", u.del, u.add)]
                    /\ UNCHANGED db
                    /\ Goto(p, "migrate_premium")
    /\ UNCHANGED <<req, nreq, returned, GEMINI_API_KEY, poolExhausted, calls>>

\* lines 1259-1262: UPDATE premium_users SET device_id = $1 WHERE device_id = $2
MigratePremium(p) ==
    /\ pc[p] = "migrate_premium"
    /\ \E fail \in Failing, c \in PoolClients(p) :
        \E u \in {rekey(View(c), "premium_users", req[p].oldDeviceId,
                        req[p].newDeviceId)} :
            /\ ~Waits(c, "premium_users", u.keys)
            /\ IF fail \/ u.violation
               THEN MigrateFailed(p, c)
               ELSE /\ Write(c, "premium_users", u.del, u.add)
                    /\ Goto(p, "migrate_recipes")
    /\ UNCHANGED <<req, nreq, returned, GEMINI_API_KEY, poolExhausted, calls>>

\* lines 1265-1268: UPDATE recipes SET submitted_by = $1 WHERE submitted_by = $2
MigrateRecipes(p) ==
    /\ pc[p] = "migrate_recipes"
    /\ \E fail \in Failing, c \in PoolClients(p) :
        \E old \in {{r \in View(c).recipes : r.submitted_by = req[p].oldDeviceId}} :
            /\ ~Waits(c, "recipes", {r.id : r \in old})
            /\ IF fail
               THEN MigrateFailed(p, c)
               ELSE /\ Write(c, "recipes", old,
                             {[r EXCEPT !.submitted_by = req[p].newDeviceId] : r \in old})
                    /\ Goto(p, "migrate_commit")
    /\ UNCHANGED <<req, nreq, returned, GEMINI_API_KEY, poolExhausted, calls>>

\* lines 1271-1274
MigrateCommit(p) ==
    /\ pc[p] = "migrate_commit"
    /\ \E fail \in Failing, c \in PoolClients(p) :
        IF fail
        THEN MigrateFailed(p, c)
        ELSE /\ Commit(c)
             /\ Respond(p, [status |-> 200, success |-> TRUE,
                            newDeviceId |-> req[p].newDeviceId])
    /\ UNCHANGED <<req, nreq, returned, GEMINI_API_KEY, poolExhausted, calls>>

MigrateSteps(p) ==
    \/ MigrateViews(p)
    \/ MigratePremium(p)
    \/ MigrateRecipes(p)
    \/ MigrateCommit(p)
    \/ MigrateRollback(p)

(***************************************************************************)
(* GET /api/recipes/top-community (lines 997-1049) and GET                 *)
(* /api/recipes/:id (lines 1052-1115) read the store and write nothing:    *)
(* what they report is a function of the rows.                             *)
(***************************************************************************)
\* the query without WHERE rv.rating IS NOT NULL: every device with a view
\* row counts
topCommunityAllViews(v) ==
    {[id |-> r.id,
      rating_count |-> Cardinality({w.device_id :
                          w \in {x \in v.recipe_views : x.recipe_id = r.id}}),
      five_star_count |-> Cardinality({w.device_id :
                          w \in {x \in v.recipe_views :
                                    x.recipe_id = r.id /\ x.rating = 5}})] :
        r \in {x \in v.recipes :
                  \E w \in v.recipe_views : w.recipe_id = x.id}}

\* lines 1001-1024 and 1032-1042: recipes INNER JOIN recipe_views WHERE
\* rv.rating IS NOT NULL GROUP BY r.id, with COUNT(DISTINCT rv.device_id)
\* as rating_count and the same count FILTER (WHERE rv.rating = 5) as
\* five_star_count. The store never holds more recipes than LIMIT 10
topCommunity(v) ==
    {[id |-> r.id,
      rating_count |-> Cardinality({w.device_id :
                          w \in {x \in v.recipe_views :
                                    x.recipe_id = r.id /\ x.rating # NullRating}}),
      five_star_count |-> Cardinality({w.device_id :
                          w \in {x \in v.recipe_views :
                                    x.recipe_id = r.id /\ x.rating = 5}})] :
        r \in {x \in v.recipes :
                  \E w \in v.recipe_views :
                      w.recipe_id = x.id /\ w.rating # NullRating}}

\* line 1107: ratingCount: recipe.rating_count || 0
recipeDetails(v, recipeId) ==
    {[id |-> r.id, ratingCount |-> r.rating_count] : r \in RecipeRows(v, recipeId)}

(***************************************************************************)
(* POST /api/premium (lines 1203-1237): one upsert of the device's row of  *)
(* premium_users, outside any transaction of its own.                      *)
(***************************************************************************)
PremiumError == [status |-> 500, error |-> "Failed to update premium status"]

\* INSERT INTO premium_users ... ON CONFLICT (device_id) DO UPDATE SET
\* is_premium = EXCLUDED.is_premium: the rows replaced and the row written
premiumUpsert(v, deviceId, isPremium) ==
    [del |-> {w \in v.premium_users : w.device_id = deviceId},
     add |-> {[device_id |-> deviceId, is_premium |-> isPremium]}]

\* lines 1205-1209: if (!deviceId) 400
StartPremium(p) ==
    /\ CanStart(p)
    /\ \E deviceId \in DeviceInputs, isPremium \in BOOLEAN :
        /\ req' = [req EXCEPT ![p] = [kind |-> "premium", deviceId |-> deviceId,
                                      isPremium |-> isPremium]]
        /\ IF deviceId = ""
           THEN Respond(p, [status |-> 400, error |-> "Device ID is required"])
           ELSE Accept(p, "premium_upsert", <<>>)
    /\ nreq' = nreq + 1
    /\ calls' = [calls EXCEPT ![p] = NoCalls]
    /\ UNCHANGED <<db, tx, returned, GEMINI_API_KEY, poolExhausted>>

\* lines 1212-1232: the upsert and the response
PremiumUpsert(p) ==
    /\ pc[p] = "premium_upsert"
    /\ \E fail \in Failing, c \in PoolClients(p) :
        /\ ~Waits(c, "premium_users", {req[p].deviceId})
        /\ \E w \in {premiumUpsert(View(c), req[p].deviceId, req[p].isPremium)} :
            IF fail
            THEN Respond(p, PremiumError) /\ Failed(c)
            ELSE /\ Write(c, "premium_users", w.del, w.add)
                 /\ Respond(p, [status |-> 200, success |-> TRUE,
                                isPremium |-> req[p].isPremium])
    /\ UNCHANGED <<req, nreq, returned, GEMINI_API_KEY, poolExhausted, calls>>

(***************************************************************************)
(* The specifications                                                      *)
(***************************************************************************)
Start(p) ==
    \/ StartMatch(p)
    \/ StartRate(p)
    \/ StartUserRating(p)
    \/ StartSave(p)
    \/ StartMigrate(p)

Steps(p) ==
    \/ MatchSteps(p)
    \/ RateSteps(p)
    \/ UserRatingSteps(p)
    \/ SaveSteps(p)
    \/ MigrateSteps(p)

\* no handler is in the middle of a request
Quiet == \A q \in Procs : pc[q] \in {"idle", "done"}

\* requests arrive at any time and their handlers interleave at every await
Next == \E p \in Procs : (nreq < MaxInterleaved /\ Start(p)) \/ Steps(p)

Spec == Init /\ [][Next]_vars

\* requests arrive one after the other: a request starts when the response
\* to the one before has been sent
NextSeq == (Quiet /\ nreq < MaxRequests /\ Start(1)) \/ Steps(1)

SpecSeq == Init /\ [][NextSeq]_vars

\* requests arrive one after the other at a deployment with the API key
NextGenerate ==
    \/ Quiet /\ nreq < MaxGenerate /\ (Start(1) \/ StartGenerate(1))
    \/ Steps(1)
    \/ GenerateSteps(1)

SpecGenerate == InitGenerate /\ [][NextGenerate]_vars

\* the same deployment with every handler running on: the event loop runs
\* the continuation of an await once its promise has settled, and every
\* promise a handler awaits settles (a statement of the store is answered
\* or fails, an axios.post returns or rejects after its 15 s timeout at the
\* latest). Requests need not arrive
NextResponds ==
    \/ Quiet /\ nreq < MaxResponds /\ (Start(1) \/ StartGenerate(1))
    \/ Steps(1)
    \/ GenerateSteps(1)

SpecResponds ==
    /\ InitGenerate
    /\ [][NextResponds]_vars
    /\ WF_vars(Steps(1) \/ GenerateSteps(1))

\* the life of device identities: requests of every endpoint that writes a
\* row a device owns, and migrations, arrive one after the other
NextMigrate ==
    \/ Quiet /\ nreq < MaxMigrate /\ (Start(1) \/ StartPremium(1))
    \/ Steps(1)
    \/ PremiumUpsert(1)

SpecMigrate == Init /\ [][NextMigrate]_vars

\* the save-favorite requests with measured lines
MeasuredSaves ==
    {[kind |-> "save-favorite", title |-> title, ingredients |-> ingredients,
      instructions |-> InstructionSteps, deviceId |-> deviceId, rating |-> 5] :
        title \in TitleInputs, ingredients \in MeasuredLineInputs,
        deviceId \in {"", "d1"}}

\* the match requests with bare names
BareNameMatches ==
    {[kind |-> "match", ingredients |-> ingredients, deviceId |-> deviceId] :
        ingredients \in BareNameInputs, deviceId \in {"", "d1"}}

\* save-favorite requests with measured lines and match requests with bare
\* names arrive one after the other; handler 1 serves the former, handler 2
\* the latter
NextRoundTrip ==
    \/ /\ Quiet
       /\ nreq < MaxRoundTrip
       /\ StartSaveWith(1, MeasuredSaves) \/ StartMatchWith(2, BareNameMatches)
    \/ SaveSteps(1)
    \/ MatchSteps(2)

SpecRoundTrip == Init /\ [][NextRoundTrip]_vars

(***************************************************************************)
(* The normaliser on its own: each handler holds one ingredient string and *)
(* applies to it, one call after the other, what save-favorite (lines      *)
(* 810-811) and the match handler (line 271) apply to the strings of their *)
(* requests, and getCoreIngredient itself.                                 *)
(***************************************************************************)
NoParse == [amount |-> Null, unit |-> Null, name |-> Null, preparation |-> Null]

InitNormalizer ==
    /\ db = EmptyDb
    /\ tx = [c \in Clients |-> NoTx]
    /\ poolExhausted = FALSE
    /\ pc = [p \in Procs |-> "text"]
    /\ req \in [Procs -> {[kind |-> "text", text |-> t] : t \in NormalizerTexts}]
    /\ loc = [p \in Procs |-> [parsed |-> NoParse, coreIngredient |-> Null,
                                coreIngredients |-> Null, core |-> Null]]
    /\ resp = [p \in Procs |-> NoResponse]
    /\ nreq = 0
    /\ returned = [d \in Devices |-> [id \in 1..MaxRecipes |-> 0]]
    /\ GEMINI_API_KEY = FALSE
    /\ calls = [p \in Procs |-> NoCalls]

\* line 810: const parsed = parseIngredient(ingredientStr)
ParseLine(p) ==
    /\ pc[p] = "text"
    /\ GotoWith(p, "parsed", [loc[p] EXCEPT !.parsed = ParsedOf[req[p].text]])
    /\ UNCHANGED <<db, tx, req, nreq, returned, GEMINI_API_KEY, poolExhausted, calls>>

\* line 811: const coreIngredient = getCoreIngredient(parsed.name)
SaveKey(p) ==
    /\ pc[p] = "parsed"
    /\ GotoWith(p, "save_key",
                [loc[p] EXCEPT !.coreIngredient = SaveCoreOf[req[p].text]])
    /\ UNCHANGED <<db, tx, req, nreq, returned, GEMINI_API_KEY, poolExhausted, calls>>

\* line 271: ingredients.map(ing => getCoreIngredient(ing.toLowerCase()))
MatchKey(p) ==
    /\ pc[p] = "save_key"
    /\ GotoWith(p, "match_key",
                [loc[p] EXCEPT !.coreIngredients = MatchCoreOf[req[p].text]])
    /\ UNCHANGED <<db, tx, req, nreq, returned, GEMINI_API_KEY, poolExhausted, calls>>

\* lines 194-214: getCoreIngredient(ingredientName)
CoreKey(p) ==
    /\ pc[p] = "match_key"
    /\ GotoWith(p, "done", [loc[p] EXCEPT !.core = CoreOf[req[p].text]])
    /\ UNCHANGED <<db, tx, req, nreq, returned, GEMINI_API_KEY, poolExhausted, calls>>

NextNormalizer ==
    \E p \in Procs : ParseLine(p) \/ SaveKey(p) \/ MatchKey(p) \/ CoreKey(p)

SpecNormalizer == InitNormalizer /\ [][NextNormalizer]_vars

\* requests arrive at any time at a server whose pool is exhausted
NextExhausted ==
    \E p \in Procs : (nreq < MaxExhausted /\ Start(p)) \/ Steps(p)

SpecExhausted == InitExhausted /\ [][NextExhausted]_vars

\* a store the service reaches with four requests (SpecMigrate): devices d1
\* and d2 have bought premium, a recipe has been saved without deviceId and
\* d1 has been given it by a match request
PremiumStore ==
    [EmptyDb EXCEPT
        !.premium_users = {[device_id |-> d, is_premium |-> TRUE] : d \in Devices},
        !.recipes = {[id |-> 1, title |-> "Test Soup", submitted_by |-> NullDevice,
                      average_rating |-> <<5, 1>>, rating_count |-> 1]},
        !.ingredients = {[id |-> 1, name |-> Rice]},
        !.recipe_ingredients = {[recipe_id |-> 1, ingredient_id |-> 1]},
        !.recipe_instructions = {[recipe_id |-> 1, step_number |-> 1]},
        !.recipe_nutrition = {[recipe_id |-> 1]},
        !.recipe_views = {[id |-> 1, recipe_id |-> 1, device_id |-> "d1",
                           rating |-> NullRating]}]

\* the server at that store with its pool exhausted, no request in flight
InitPooled ==
    /\ db = PremiumStore
    /\ tx = [c \in Clients |-> NoTx]
    /\ poolExhausted = TRUE
    /\ pc = [p \in Procs |-> "idle"]
    /\ req = [p \in Procs |-> NoRequest]
    /\ loc = [p \in Procs |-> <<>>]
    /\ resp = [p \in Procs |-> NoResponse]
    /\ nreq = 0
    /\ returned = [d \in Devices |-> [id \in 1..MaxRecipes |->
                      IF d = "d1" /\ id = 1 THEN 1 ELSE 0]]
    /\ GEMINI_API_KEY = FALSE
    /\ calls = [p \in Procs |-> NoCalls]

\* the identities of the migration requests: the two devices, a device
\* without rows, and none
MigrateIds == DeviceInputs \cup {"d3"}

\* from there migrate-device and save-favorite requests arrive at any time
NextPooled ==
    \E p \in Procs :
        \/ nreq < MaxPooled /\ (StartMigrateWith(p, MigrateIds) \/ StartSave(p))
        \/ MigrateSteps(p)
        \/ SaveSteps(p)

SpecPooled == InitPooled /\ [][NextPooled]_vars

(***************************************************************************)
(* Properties of the matcher                                               *)
(***************************************************************************)
\* the lower-cased names of the ingredients stored for the recipe with this id
IngredientNamesOf(v, id) ==
    {toLowerCase(g.name) :
        g \in {i \in v.ingredients :
                  \E ri \in v.recipe_ingredients :
                      ri.recipe_id = id /\ ri.ingredient_id = i.id}}

\* the set of core keys of a match request
QueryKeys(request) == Range(coreIngredients(request.ingredients))

\* handler p has answered a match request with a stored recipe
StoredHit(p) ==
    /\ pc[p] = "done"
    /\ req[p].kind = "match"
    /\ resp[p].status = 200
    /\ resp[p].fromDatabase

\* the recipe ids with a recipe_views row for the device or submitted by it
ExclusionOf(v, deviceId) ==
    IF deviceId = "" THEN {}
    ELSE {w.recipe_id : w \in {x \in v.recipe_views : x.device_id = deviceId}}
         \cup {r.id : r \in {x \in v.recipes : x.submitted_by = deviceId}}

\* C1: a stored recipe that a match request returns has exactly the query's
\* core keys as its set of ingredient names, so never a strict subset or a
\* strict superset of them
C1_ExactIngredientSet ==
    \A p \in Procs :
        StoredHit(p) =>
            IngredientNamesOf(db, resp[p].recipe.id) = QueryKeys(req[p])

\* a two-ingredient query has been answered with a stored recipe while a
\* recipe with a strict subset of the query's keys is stored as well
C1_Witness ==
    \E p \in Procs :
        /\ StoredHit(p)
        /\ Cardinality(QueryKeys(req[p])) = 2
        /\ \E r \in db.recipes :
              /\ IngredientNamesOf(db, r.id) # QueryKeys(req[p])
              /\ IngredientNamesOf(db, r.id) \subseteq QueryKeys(req[p])

\* C2: the match query of a request answers no row if and only if no recipe
\* outside the request's exclusion set has the set of the query's core keys
\* as its set of ingredient names
C2_NoMatchIffNoEqualSet ==
    \A p \in Procs :
        pc[p] = "match_query" =>
            ((matchQuery(db, loc[p].coreIngredients,
                         loc[p].excludedRecipeIds) = {})
             <=> ~ \E r \in db.recipes :
                     /\ r.id \notin loc[p].excludedRecipeIds
                     /\ IngredientNamesOf(db, r.id)
                          = Range(loc[p].coreIngredients))

\* a is rated strictly higher than b: by average_rating, then by rating_count
RatedHigher(a, b) ==
    \/ a.average_rating[1] * b.average_rating[2]
         > b.average_rating[1] * a.average_rating[2]
    \/ a.average_rating = b.average_rating /\ a.rating_count > b.rating_count

\* the recipes other than the returned one that qualified for the request
\* handler p has answered: same ingredient set, outside the exclusion set
OtherQualifying(p) ==
    {r \in db.recipes :
        /\ r.id # resp[p].recipe.id
        /\ r.id \notin ExclusionOf(db, req[p].deviceId)
        /\ IngredientNamesOf(db, r.id) = QueryKeys(req[p])}

\* C3: when a match request is answered with a stored recipe, no other
\* qualifying recipe has a strictly higher (average_rating, rating_count)
C3_HighestRated ==
    \A p \in Procs :
        StoredHit(p) =>
            \A o \in OtherQualifying(p) :
                ~RatedHigher(o, [average_rating |-> resp[p].recipe.rating,
                                 rating_count |-> resp[p].recipe.ratingCount])

\* a stored recipe has been returned while another qualifying recipe, rated
\* strictly lower, was stored
C3_Witness ==
    \E p \in Procs :
        /\ StoredHit(p)
        /\ \E o \in OtherQualifying(p) :
              RatedHigher([average_rating |-> resp[p].recipe.rating,
                           rating_count |-> resp[p].recipe.ratingCount], o)

\* C4: the exclusion set a match request hands to its match query is the
\* recipe ids with a recipe_views row for the device united with the recipe
\* ids submitted by it, and empty without a deviceId
C4_ExclusionSet ==
    \A p \in Procs :
        pc[p] = "match_query" =>
            loc[p].excludedRecipeIds = ExclusionOf(db, req[p].deviceId)

\* a request is about to run its match query with one recipe excluded as
\* viewed and another as submitted by the device
C4_Witness ==
    \E p \in Procs :
        /\ pc[p] = "match_query"
        /\ \E a \in loc[p].excludedRecipeIds, b \in loc[p].excludedRecipeIds :
              /\ \E w \in db.recipe_views :
                    w.recipe_id = a /\ w.device_id = req[p].deviceId
              /\ \E r \in db.recipes :
                    r.id = b /\ r.submitted_by = req[p].deviceId
              /\ \A r \in db.recipes :
                    r.id = a => r.submitted_by # req[p].deviceId

(***************************************************************************)
(* Properties of the view/rating ledger                                    *)
(***************************************************************************)
\* the recipe_views rows of a recipe and a device
ViewRows(v, recipeId, deviceId) ==
    {w \in v.recipe_views : w.recipe_id = recipeId /\ w.device_id = deviceId}

\* C5 as stated: no stored recipe is returned to a device more than once
C5_ReturnedAtMostOnce ==
    \A d \in Devices : \A id \in 1..MaxRecipes : returned[d][id] <= 1

\* C5: a match request returns a stored recipe to its device only if the
\* store holds no view row of that recipe and device; a recipe is returned to
\* the device again only after its view row was not written or was re-keyed
C5_NotReturnedWhileViewed ==
    \A p \in Procs :
        pc[p] = "match_view" =>
            ViewRows(db, loc[p].recipe.id, req[p].deviceId) = {}

\* a later request of a device is about to return a stored recipe other than
\* the one an earlier request returned to it, whose view row is in the store
C5_Witness ==
    \E p \in Procs :
        /\ pc[p] = "match_view"
        /\ \E id \in 1..MaxRecipes :
              /\ id # loc[p].recipe.id
              /\ returned[req[p].deviceId][id] = 1
              /\ ViewRows(db, id, req[p].deviceId) # {}
              /\ IngredientNamesOf(db, id) = QueryKeys(req[p])

\* C6: two match requests of one device whose view writes did not fail have
\* not both returned the same stored recipe
C6_ConcurrentReturnOnce ==
    \A p \in Procs : \A q \in Procs \ {p} :
        ~ /\ StoredHit(p)
          /\ StoredHit(q)
          /\ req[p].deviceId # ""
          /\ req[p].deviceId = req[q].deviceId
          /\ resp[p].recipe.id = resp[q].recipe.id
          /\ resp[p].viewLog # "Failed to record recipe view"
          /\ resp[q].viewLog # "Failed to record recipe view"

\* C7 as stated: when a match request with a deviceId has been answered with
\* a stored recipe, the view row of recipe and device is in the store
C7_ViewRowAtResponse ==
    \A p \in Procs :
        (StoredHit(p) /\ req[p].deviceId # "") =>
            ViewRows(db, resp[p].recipe.id, req[p].deviceId) # {}

\* C7: when a match request with a deviceId has been answered with a stored
\* recipe and its view write did not fail, the view row of recipe and device
\* is in the store
C7_ViewRowUnlessWriteFailed ==
    \A p \in Procs :
        (/\ StoredHit(p)
         /\ req[p].deviceId # ""
         /\ resp[p].viewLog # "Failed to record recipe view") =>
            ViewRows(db, resp[p].recipe.id, req[p].deviceId) # {}

\* a match request with a deviceId has been answered with a stored recipe
\* after writing its view row
C7_Witness ==
    \E p \in Procs :
        /\ StoredHit(p)
        /\ req[p].deviceId # ""
        /\ resp[p].viewLog = "Recorded new view"
        /\ ViewRows(db, resp[p].recipe.id, req[p].deviceId) # {}

\* C8: the store holds at most one recipe_views row per recipe and device
C8_OneRowPerPair ==
    \A w \in db.recipe_views : \A x \in db.recipe_views :
        (w.recipe_id = x.recipe_id /\ w.device_id = x.device_id) => w = x

\* a match request has recorded a view for a pair that already had a row,
\* and the pair still has one row
C8_Witness ==
    \E p \in Procs :
        /\ StoredHit(p)
        /\ resp[p].viewLog = "View already exists"
        /\ Cardinality(ViewRows(db, resp[p].recipe.id, req[p].deviceId)) = 1

(***************************************************************************)
(* Properties of the rating aggregates                                     *)
(***************************************************************************)
\* the recipe_views rows of a recipe that carry a rating
RatedRows(v, recipeId) ==
    {w \in v.recipe_views : w.recipe_id = recipeId /\ w.rating # NullRating}

\* the sum of the ratings 1..5 of a set of rows
RatingSum(rows) ==
    LET n(k) == Cardinality({w \in rows : w.rating = k})
    IN  n(1) + 2 * n(2) + 3 * n(3) + 4 * n(4) + 5 * n(5)

\* recipe row r carries the aggregate of its rating-bearing rows: the mean
\* of the ratings and the number of distinct devices
Aggregated(v, r) ==
    LET rated == RatedRows(v, r.id)
    IN  /\ r.rating_count = Cardinality({w.device_id : w \in rated})
        /\ IF rated = {}
           THEN r.average_rating = NullAverage
           ELSE /\ r.average_rating # NullAverage
                /\ r.average_rating[1] * Cardinality(rated)
                     = RatingSum(rated) * r.average_rating[2]

\* handler p has answered a rating request of either endpoint with success,
\* the rating being stored
RatingDone(p) ==
    /\ pc[p] = "done"
    /\ req[p].kind \in {"rate", "user-rating"}
    /\ resp[p].status = 200
    /\ resp[p] # SavedLocally

\* C9: when a rating request has completed, the recipe's average_rating is
\* the mean of the ratings stored for it and its rating_count the number of
\* distinct devices with a stored rating
C9_AggregateAfterRate ==
    \A p \in Procs :
        RatingDone(p) =>
            \A r \in db.recipes : r.id = req[p].id => Aggregated(db, r)

\* a rating request has completed on a recipe that two devices have rated
\* differently
C9_Witness ==
    \E p \in Procs :
        /\ RatingDone(p)
        /\ \E w \in RatedRows(db, req[p].id), x \in RatedRows(db, req[p].id) :
              w.device_id # x.device_id /\ w.rating # x.rating
        /\ \E r \in db.recipes : r.id = req[p].id /\ r.rating_count = 2

\* C10: whenever no request is being served, every recipe carries the
\* aggregate of its rating-bearing rows
C10_AggregatesDerived ==
    Quiet => \A r \in db.recipes : Aggregated(db, r)

(***************************************************************************)
(* Properties of the rate request                                          *)
(***************************************************************************)
\* handler p has answered a request to POST /api/recipes/:id/rate with
\* success
RateDone(p) ==
    /\ pc[p] = "done"
    /\ req[p].kind = "rate"
    /\ resp[p].status = 200

\* the step with which handler p writes the aggregate of a rate request
RateWritesAggregate(p) ==
    /\ pc[p] = "rate_update"
    /\ pc'[p] \in {"rate_submitted", "done"}
    /\ resp'[p] # RateError

\* C11, the stored rating: when a rate request has completed, the rating
\* stored for its recipe and device is the rating of the request
C11_LatestRatingStored ==
    \A p \in Procs :
        RateDone(p) =>
            /\ ViewRows(db, req[p].id, req[p].deviceId) # {}
            /\ \A w \in ViewRows(db, req[p].id, req[p].deviceId) :
                  w.rating = req[p].rating

\* C11, the count: a rate request that overwrites a rating its device had
\* stored for the recipe leaves the recipe's rating_count as it was
C11_ReRatingKeepsCount ==
    [][\A p \in Procs :
          (RateWritesAggregate(p) /\ loc[p].prior # NullRating) =>
              \A r \in RecipeRows(db, req[p].id) :
                  \A n \in RecipeRows(db', req[p].id) :
                      n.rating_count = r.rating_count]_vars

\* the step with which handler p ends a rate request with success
RateSucceeds(p) ==
    /\ pc[p] \in {"rate_update", "rate_submitted"}
    /\ pc'[p] = "done"
    /\ resp'[p] # RateError

\* C12 as stated: a rate request that stores the first rating of a recipe
\* without a submitter ends with its device as the recipe's submitter
C12_FirstRaterBecomesSubmitter ==
    [][\A p \in Procs :
          (/\ RateSucceeds(p)
           /\ loc[p].prior = NullRating
           /\ \A w \in RatedRows(db, req[p].id) : w.device_id = req[p].deviceId
           /\ \A r \in RecipeRows(db, req[p].id) : r.submitted_by = NullDevice) =>
              \A n \in RecipeRows(db', req[p].id) :
                  n.submitted_by = req[p].deviceId]_vars

\* C12: a rate request that ends with success makes its device the
\* submitter of the recipe if its rating is 5 and the recipe has none, and
\* leaves submitted_by as it is otherwise, first rating or not
C12_FiveStarRaterBecomesSubmitter ==
    [][\A p \in Procs :
          RateSucceeds(p) =>
              \A r \in RecipeRows(db, req[p].id) :
                  \A n \in RecipeRows(db', req[p].id) :
                      n.submitted_by =
                          IF req[p].rating = 5 /\ r.submitted_by = NullDevice
                          THEN req[p].deviceId
                          ELSE r.submitted_by]_vars

\* a 5-star rate request has completed on a recipe that was saved without a
\* deviceId, and its device is now the recipe's submitter
C12_Witness ==
    \E p \in Procs :
        /\ RateDone(p)
        /\ req[p].rating = 5
        /\ \E r \in RecipeRows(db, req[p].id) :
              r.submitted_by = req[p].deviceId
        /\ ~ \E u \in db.recipe_usage : u.recipe_id = req[p].id


(***************************************************************************)
(* Properties of the save-favorite request                                 *)
(***************************************************************************)
\* the rows of table t that belong to recipe id
RowsOf(v, t, id) == {x \in v[t] : x.recipe_id = id}

\* the recipe row comes with its ingredient lines, instructions and nutrition
Complete(v, r) ==
    /\ RowsOf(v, "recipe_ingredients", r.id) # {}
    /\ RowsOf(v, "recipe_instructions", r.id) # {}
    /\ RowsOf(v, "recipe_nutrition", r.id) # {}

\* C13: every recipe row of the committed store, which is what the other
\* connections read, has its ingredient lines, instructions and nutrition
C13_RecipeRowsComplete ==
    \A r \in db.recipes : Complete(db, r)


\* C14, one row per name: the committed store holds at most one ingredient
\* row per canonical name, and every ingredient line of a recipe is linked
\* to an ingredient row
C14_OneRowPerName ==
    /\ \A g \in db.ingredients : \A h \in db.ingredients :
          g.name = h.name => g.id = h.id
    /\ \A l \in db.recipe_ingredients :
          \E g \in db.ingredients : g.id = l.ingredient_id

\* C14, concurrent saves: a save-favorite request that is about to insert a
\* new core ingredient which a concurrent save has committed in the
\* meantime goes on with that ingredient instead of failing
C14_ConcurrentSavesSucceed ==
    [][\A p \in Procs :
          (/\ pc[p] = "save_insert_ingredient"
           /\ pc'[p] # pc[p]
           /\ IngredientNameTaken(db, loc[p].coreIngredient)) =>
              pc'[p] # "save_rollback"]_vars


\* C15: the committed store never holds two recipe rows with the same title
C15_OneRowPerTitle ==
    \A r \in db.recipes : \A s \in db.recipes :
        r.title = s.title => r.id = s.id


(***************************************************************************)
(* Properties of saving and then matching                                  *)
(***************************************************************************)
\* length of the run of characters other than white space that starts at pos
WordRun(s, pos) ==
    LET stop == {j \in pos..Len(s) : IsSpace(s[j])}
    IN  IF pos > Len(s) THEN 0
        ELSE IF stop = {} THEN Len(s) - pos + 1
        ELSE (CHOOSE j \in stop : \A i \in stop : j <= i) - pos

\* the <name> of a line "<amount> <unit> <name>": what follows its first two
\* tokens
BareName(line) ==
    LET a == WordRun(line, 1)
        b == a + SpaceRun(line, a + 1)
        c == b + WordRun(line, b + 1)
        d == c + SpaceRun(line, c + 1)
    IN  Slice(line, d + 1, Len(line))

\* the bare names of the lines of a save-favorite request
BareNames(lines) == [i \in 1..Len(lines) |-> BareName(lines[i])]

\* handler 1 has saved a new recipe, and no other stored recipe has its
\* ingredient set
SavedAlone ==
    /\ pc[1] = "done"
    /\ req[1].kind = "save-favorite"
    /\ resp[1].status = 200
    /\ resp[1].message = "Recipe saved and shared with community!"
    /\ \A r \in db.recipes :
          r.id # resp[1].recipeId =>
              IngredientNamesOf(db, r.id) # IngredientNamesOf(db, resp[1].recipeId)

\* C16: a match request without deviceId that names exactly the ingredients
\* of the lines of a recipe saved before it, and that no store failure
\* interrupts, answers found: true with that recipe
C16_SaveThenMatchFinds ==
    [][(/\ SavedAlone
        /\ pc[2] = "match_query"
        /\ pc'[2] = "done"
        /\ req[2].deviceId = ""
        /\ req[2].ingredients = BareNames(req[1].ingredients)
        /\ resp'[2] # MatchError) =>
           /\ resp'[2].status = 200
           /\ resp'[2].found
           /\ resp'[2].fromDatabase
           /\ resp'[2].recipe.id = resp[1].recipeId]_vars


(***************************************************************************)
(* Properties of the normaliser                                            *)
(***************************************************************************)
\* handler p has applied the normaliser to its ingredient string
Normalized(p) == pc[p] = "done" /\ req[p].kind = "text"

\* C17 as stated: the key save-favorite stores for an ingredient string is
\* the key the match handler derives from the same string
C17_SameKeyForEveryString ==
    \A p \in Procs :
        Normalized(p) => loc[p].coreIngredient = loc[p].coreIngredients

\* C17, without a quantity: the two keys are the same for every ingredient
\* string that the measurement pattern of parseIngredient does not match
C17_SameKeyWithoutQuantity ==
    \A p \in Procs :
        (Normalized(p) /\ loc[p].parsed.amount = Null) =>
            loc[p].coreIngredient = loc[p].coreIngredients

\* the second white-space-delimited token of a line
SecondToken(line) ==
    LET a == WordRun(line, 1)
        b == a + SpaceRun(line, a + 1)
    IN  Slice(line, b + 1, b + WordRun(line, b + 1))

\* what follows the first token of a line
AfterFirst(line) == Slice(line, WordRun(line, 1) + 1, Len(line))

\* the text up to the comma that starts a preparation clause
BeforeComma(s) ==
    LET commas == {j \in 1..Len(s) : s[j] = ","}
    IN  IF commas = {} THEN s
        ELSE Slice(s, 1, (CHOOSE j \in commas : \A i \in commas : j <= i) - 1)

\* C18: a line with a quantity is split at token boundaries: when its second
\* token is a unit of the vocabulary, that token is the unit and the name is
\* the text after it; otherwise the unit is the no-unit value and the name is
\* the text after the quantity
C18_WholeTokenSplit ==
    \A p \in Procs :
        (req[p].kind = "text" /\ pc[p] # "text" /\ loc[p].parsed.amount # Null) =>
            IF toLowerCase(SecondToken(req[p].text)) \in Range(units)
            THEN /\ loc[p].parsed.unit = SecondToken(req[p].text)
                 /\ loc[p].parsed.name = trim(BeforeComma(BareName(req[p].text)))
            ELSE /\ loc[p].parsed.unit = DefaultUnit
                 /\ loc[p].parsed.name = trim(BeforeComma(AfterFirst(req[p].text)))

\* the white-space-delimited tokens of s from position pos on
RECURSIVE WordsFrom(_, _)
WordsFrom(s, pos) ==
    LET a == pos + SpaceRun(s, pos)
    IN  IF a > Len(s) THEN <<>>
        ELSE <<Slice(s, a, a + WordRun(s, a) - 1)>>
                 \o WordsFrom(s, a + WordRun(s, a))

\* a and b differ only in letter case and in the amount of leading, trailing
\* and inner white space
SameUpToCaseAndSpace(a, b) ==
    WordsFrom(toLowerCase(a), 1) = WordsFrom(toLowerCase(b), 1)

\* C19: two strings that differ only in letter case and in the amount of
\* white space have the same core ingredient
C19_CaseAndSpaceInsensitive ==
    \A p \in Procs : \A q \in Procs :
        (/\ Normalized(p)
         /\ Normalized(q)
         /\ SameUpToCaseAndSpace(req[p].text, req[q].text)) =>
            loc[p].core = loc[q].core

\* two different spellings of one name have been normalised to one key that
\* is neither of them
C19_Witness ==
    \E p \in Procs : \E q \in Procs :
        /\ Normalized(p)
        /\ Normalized(q)
        /\ req[p].text # req[q].text
        /\ toLowerCase(req[p].text) # toLowerCase(req[q].text)
        /\ SameUpToCaseAndSpace(req[p].text, req[q].text)
        /\ loc[p].core = loc[q].core
        /\ loc[p].core # toLowerCase(req[p].text)

\* C20: every key of the alias table is normalised to its canonical value
C20_AliasesConverge ==
    \A p \in Procs :
        Normalized(p) =>
            \A m \in 1..Len(mappings) :
                req[p].text = mappings[m][1] => loc[p].core = mappings[m][2]

\* "chicken breast" and "chicken thighs" have both been normalised to
\* "chicken"
C20_Witness ==
    \E p \in Procs : \E q \in Procs :
        /\ Normalized(p)
        /\ Normalized(q)
        /\ req[p].text = ChickenBreast
        /\ req[q].text = mappings[2][1]
        /\ loc[p].core = mappings[1][2]
        /\ loc[q].core = mappings[1][2]

(***************************************************************************)
(* Properties of the submitter exclusion                                   *)
(***************************************************************************)
\* the devices whose save-favorite request has created the recipe: the new
\* recipe path alone writes recipe_usage, and nothing re-keys it
CreatorsOf(v, id) ==
    {u.device_id : u \in {x \in v.recipe_usage : x.recipe_id = id}}

FailsValidation(request) ==
    \/ /\ request.kind \in {"match", "generate"}
       /\ request.ingredients = <<>>
    \/ /\ request.kind = "rate"
       /\ request.rating \notin 1..5 \/ request.deviceId = ""
    \/ /\ request.kind = "save-favorite"
       /\ request.title = "" \/ request.rating # 5

C23_GeneratorOnlyOnMiss ==
    [][\A p \in Procs :
          req'[p].kind = "match" =>
              /\ calls'[p].stage1 > calls[p].stage1 =>
                     /\ pc[p] = "match_query"
                     /\ \E c \in PoolClients(p) :
                            matchQuery(View(c), loc[p].coreIngredients,
                                       loc[p].excludedRecipeIds) = {}
              /\ calls'[p].stage2 > calls[p].stage2 => pc[p] = "match_stage1"
              /\ StoredHit(p)' => calls'[p] = NoCalls]_vars

\* a match request has been answered with a stored recipe at a deployment
\* whose API key is set, without a call
C23_Witness ==
    \E p \in Procs :
        /\ StoredHit(p)
        /\ GEMINI_API_KEY
        /\ calls[p] = NoCalls

\* handler p has finished a request whose stage 1 text parsed to a recipe
\* object and whose stage 2 call came to one of these kinds
DraftThenStage2(p, kinds) ==
    /\ pc[p] = "done"
    /\ req[p].kind \in {"match", "generate"}
    /\ calls[p].reply1.kind = "parsed"
    /\ calls[p].reply1.json.type = "object"
    /\ calls[p].reply2.kind \in kinds

\* the response of handler p carries the stage 1 draft (its lines made flat
\* strings by the match handler)
ReturnsDraft(p) ==
    /\ resp[p].status = 200
    /\ IF req[p].kind = "match"
       THEN /\ resp[p].found
            /\ resp[p].recipe = flatIngredients(calls[p].reply1.json)
       ELSE resp[p].recipe = calls[p].reply1.json

\* C24: when stage 1 has produced a draft and the stage 2 call has thrown
\* (timeout, transport error, non-2xx reply), has come back without a
\* candidate or with a text that does not parse, the request is answered
\* with the stage 1 draft
C24_Stage2FailureReturnsDraft ==
    \A p \in Procs :
        DraftThenStage2(p, {"throws", "no candidate", "unparseable"}) =>
            ReturnsDraft(p)

\* C24, the replies that arrive: the draft is returned when the stage 2 reply
\* has no candidate or a text that does not parse
C24_UnusableReplyReturnsDraft ==
    \A p \in Procs :
        DraftThenStage2(p, {"no candidate", "unparseable"}) => ReturnsDraft(p)

\* C25 as stated: a request whose stage 1 text did not parse ends with a
\* recipe
C25_UnparsedStage1EndsWithRecipe ==
    \A p \in Procs :
        /\ pc[p] = "done"
        /\ req[p].kind \in {"match", "generate"}
        /\ calls[p].reply1.kind = "unparseable"
        => /\ resp[p].status = 200
           /\ resp[p].recipe.type = "object"

\* C25, the synthetic recipe: when the stage 1 text does not parse, the
\* stage 2 call is issued with a recipe that has one line "Some <ingredient>"
\* per ingredient of the request, in the request's order
C25_SyntheticRecipeGoesOn ==
    \A p \in Procs :
        calls[p].reply1.kind = "unparseable" /\ pc[p] # "done" =>
            /\ pc[p] \in {"match_stage2", "generate_stage2"}
            /\ calls[p].stage2 = 1
            /\ loc[p].initialRecipe.ingredients.type = "array"
            /\ LET lines == loc[p].initialRecipe.ingredients.items
               IN  /\ Len(lines) = Len(req[p].ingredients)
                   /\ \A i \in 1..Len(lines) :
                          /\ lines[i].type = "string"
                          /\ lines[i].text =
                                 Some \o <<" ">> \o req[p].ingredients[i]

\* C26: a request issues the call of each stage at most once; when its
\* stage 1 call has thrown (timeout, transport failure), the request has
\* ended with status 500 and the generation failure message, without a
\* stage 2 call
C26_Stage1FailureNoRetry ==
    \A p \in Procs :
        /\ calls[p].stage1 <= 1
        /\ calls[p].stage2 <= 1
        /\ calls[p].reply1.kind = "throws" =>
               /\ pc[p] = "done"
               /\ resp[p].status = 500
               /\ resp[p].error = "Failed to generate recipe. Please try again."
               /\ calls[p].stage2 = 0

\* the stage 1 call of a match request has thrown and the request is over
\* after that one call
C26_Witness ==
    \E p \in Procs :
        /\ req[p].kind = "match"
        /\ calls[p].reply1.kind = "throws"
        /\ calls[p].stage1 = 1
        /\ pc[p] = "done"

\* handler p has answered a match request with a generated recipe
GeneratedHit(p) ==
    /\ pc[p] = "done"
    /\ req[p].kind = "match"
    /\ resp[p].status = 200
    /\ ~resp[p].fromDatabase

\* C27: every generated recipe a match request returns carries a nutrition
\* block
C27_GeneratedHasNutrition ==
    \A p \in Procs :
        GeneratedHit(p) => resp[p].recipe.nutrition.type = "object"

\* C27, the stage 2 text that parses: the recipe returned from it carries a
\* nutrition block, the placeholder when the text had none
C27_ParsedStage2HasNutrition ==
    \A p \in Procs :
        GeneratedHit(p) /\ calls[p].reply2.kind = "parsed" =>
            resp[p].recipe.nutrition =
                IF calls[p].reply2.json.nutrition.type = "object"
                THEN calls[p].reply2.json.nutrition
                ELSE PlaceholderNutrition

\* C28: in every generated recipe a match request returns, each element of
\* the ingredients array is a string
C28_LinesAreStrings ==
    \A p \in Procs :
        GeneratedHit(p) /\ resp[p].recipe.ingredients.type = "array" =>
            \A i \in 1..Len(resp[p].recipe.ingredients.items) :
                resp[p].recipe.ingredients.items[i].type = "string"

\* a match request has returned the recipe of a stage 2 text whose lines
\* were objects, null and a number
C28_Witness ==
    \E p \in Procs :
        /\ GeneratedHit(p)
        /\ calls[p].reply2.kind = "parsed"
        /\ calls[p].reply2.json = StructuredLines
        /\ Len(resp[p].recipe.ingredients.items) = 6

\* the foods a line of a generated recipe can name
Foods == {Rice, Salt, Pepper, Saffron}

\* the text names the food
Names(text, food) ==
    \E i \in 1..Len(text) : StartsAt(toLowerCase(text), i, food)

\* the food is named by an ingredient of the request or is a seasoning of
\* the selected spice packs
Listed(request, food) ==
    \/ food \in availableSpices
    \/ \E i \in 1..Len(request.ingredients) :
           Names(request.ingredients[i], food)

\* C29: a generated recipe a match request returns has a title, and its
\* lines name no food that is neither listed by the request nor a seasoning
\* of the selected spice packs
C29_TitleAndListedIngredients ==
    \A p \in Procs :
        GeneratedHit(p) =>
            /\ resp[p].recipe.title # ""
            /\ resp[p].recipe.ingredients.type = "array" =>
                   \A i \in 1..Len(resp[p].recipe.ingredients.items) :
                       \A food \in Foods :
                           Names(resp[p].recipe.ingredients.items[i].text, food)
                               => Listed(req[p], food)

(***************************************************************************)
(* Properties of the view write                                            *)
(***************************************************************************)
\* C30: the step of a match request after its hit, the view write, ends
\* the request with status 200, found: true and the matched recipe whether
\* the write fails or not; a write that fails changes nothing in the store,
\* where the recipe stays outside the exclusion set of the device
C30_ViewFailureStillReturns ==
    [][\A p \in Procs :
          pc[p] = "match_view" /\ pc'[p] # "match_view" =>
              /\ StoredHit(p)'
              /\ resp'[p].found
              /\ resp'[p].recipe.id = loc[p].recipe.id
              /\ resp'[p].viewLog = "Failed to record recipe view" =>
                     /\ db' = db
                     /\ loc[p].recipe.id \notin ExclusionOf(db', req[p].deviceId)]_vars

\* a match request has been answered with a stored recipe although its view
\* write failed, and the recipe is not in the exclusion set of its device
C30_Witness ==
    \E p \in Procs :
        /\ StoredHit(p)
        /\ resp[p].viewLog = "Failed to record recipe view"
        /\ resp[p].recipe.id \notin ExclusionOf(db, req[p].deviceId)

(***************************************************************************)
(* Properties of the responses                                             *)
(***************************************************************************)
\* a response body as the handlers build them: an error message with a 4xx
\* or 5xx status, or a success body with found or success
WellFormed(r) ==
    /\ r.status \in {200, 400, 500}
    /\ r.status # 200 => "error" \in DOMAIN r
    /\ r.status = 200 => "found" \in DOMAIN r \/ "success" \in DOMAIN r

\* the kinds of request C31 speaks of
Answered == {"match", "save-favorite", "rate", "generate"}

\* C31: every match, save-favorite, rate and generate request that is being
\* served is eventually answered; a request that is over carries exactly
\* one, well-formed response: nothing is sent for a request that has been
\* answered, and nothing has been sent for one that is being served
C31_OneResponseEventually ==
    /\ \A p \in Procs :
           (pc[p] \notin {"idle", "done"} /\ req[p].kind \in Answered)
               ~> (pc[p] = "done" /\ resp[p] # NoResponse)
    /\ [](\A p \in Procs :
             req[p].kind \in Answered =>
                 IF pc[p] = "done" THEN WellFormed(resp[p])
                 ELSE resp[p] = NoResponse)
    /\ [][\A p \in Procs :
             pc[p] = "done" /\ resp'[p] # resp[p] => nreq' = nreq + 1]_vars

\* a save-favorite request has been answered with the server error of its
\* catch block
C31_Witness ==
    \E p \in Procs :
        /\ req[p].kind = "save-favorite"
        /\ pc[p] = "done"
        /\ resp[p] = SaveError

(***************************************************************************)
(* Properties of the rate request as a write sequence                      *)
(***************************************************************************)
\* C32: when a rate request ends with a server error after its upsert, at
\* the aggregate read, the aggregate write or the submitted_by write, the
\* store carries for its recipe and device the rating it carried before the
\* request
C32_RateAllOrNothing ==
    [][\A p \in Procs :
          /\ req[p].kind = "rate"
          /\ pc[p] \in {"rate_stats", "rate_update", "rate_submitted"}
          /\ pc'[p] = "done"
          /\ resp'[p].status = 500
          => priorRating(db', req[p].id, req[p].deviceId) = loc[p].prior]_vars

(***************************************************************************)
(* Properties of the device migration                                      *)
(***************************************************************************)
\* the rows of table t that device deviceId owns, and the recipes it
\* submitted
OwnedRows(v, t, deviceId) == {w \in v[t] : w.device_id = deviceId}

SubmittedBy(v, deviceId) == {r \in v.recipes : r.submitted_by = deviceId}

\* handler p takes the step that commits its migration and answers success
MigrationSucceeds(p) ==
    /\ pc[p] = "migrate_commit"
    /\ pc'[p] = "done"
    /\ resp'[p].status = 200

RatersOf(v, recipeId) == {w.device_id : w \in RatedRows(v, recipeId)}

\* C34: when a rate request has completed on a recipe that save-favorite
\* created, the rating_count that top-community reports for the recipe and
\* the ratingCount of the recipe's details both equal the number of distinct
\* devices that have rated it
C34_CountIsDistinctRaters ==
    \A p \in Procs :
        RateDone(p) =>
            \E N \in {Cardinality(RatersOf(db, req[p].id))} :
                /\ \E t \in topCommunity(db) : t.id = req[p].id
                /\ \A t \in topCommunity(db) :
                      t.id = req[p].id => t.rating_count = N
                /\ \A r \in recipeDetails(db, req[p].id) : r.ratingCount = N

\* a rate request has completed on a recipe that two devices have rated
C34_Witness ==
    \E p \in Procs :
        /\ RateDone(p)
        /\ Cardinality(RatersOf(db, req[p].id)) = 2
        /\ recipeDetails(db, req[p].id) # {}

(***************************************************************************)
(* Properties of submitted_by                                              *)
(***************************************************************************)
\* the step changes the submitted_by of the stored recipe id from a to b
SubmitterChanges(id, a, b) ==
    /\ a # b
    /\ \E r \in db.recipes : r.id = id /\ r.submitted_by = a
    /\ \E r \in db'.recipes : r.id = id /\ r.submitted_by = b

\* C35: a step that changes the submitted_by of a stored recipe is either
\* the last statement of a rate request with rating 5 for that recipe, taking
\* it from null to the request's device, or the commit of a device migration
\* taking it from the old identity to the new one; so no step of a
\* save-favorite request changes it and no rate request changes one that is
\* set
C35_SubmitterSetOnce ==
    [][\A id \in 1..MaxRecipes, a \in Devices \cup {NullDevice}, b \in Devices \cup {NullDevice} :
          SubmitterChanges(id, a, b) =>
              \E p \in Procs :
                  \/ /\ req[p].kind = "rate"
                     /\ pc[p] = "rate_submitted"
                     /\ pc'[p] = "done"
                     /\ req[p].rating = 5
                     /\ req[p].id = id
                     /\ a = NullDevice
                     /\ b = req[p].deviceId
                  \/ /\ req[p].kind = "migrate-device"
                     /\ pc[p] = "migrate_commit"
                     /\ pc'[p] = "done"
                     /\ a = req[p].oldDeviceId
                     /\ b = req[p].newDeviceId]_vars

\* a rate request with rating 5 has completed on a recipe that another
\* device had submitted, which is still its submitter
C35_Witness ==
    \E p \in Procs :
        /\ RateDone(p)
        /\ req[p].rating = 5
        /\ \E r \in db.recipes :
              /\ r.id = req[p].id
              /\ r.submitted_by \in Devices \ {req[p].deviceId}

(***************************************************************************)
(* Matching and the rows of other devices                                  *)
(***************************************************************************)
\* what the match handler answers to a request on store v when no statement
\* fails: the three reads of lines 288-308 and 390 on the same rows, then a
\* miss or one of the rows the query may return
MatchOutcomes(v, request) ==
    LET excluded == IF request.deviceId = "" THEN {}
                    ELSE excludedRecipeIds(
                             viewedRecipes(v, request.deviceId),
                             submittedRecipes(v, request.deviceId))
        rows == matchQuery(v, coreIngredients(request.ingredients), excluded)
    IN  IF noRows(rows) THEN {[found |-> FALSE]}
        ELSE {[found |-> TRUE, recipe |-> MatchHit(r, "none").recipe] : r \in rows}

\* store v without the unrated view rows of the devices other than deviceId
WithoutForeignViews(v, deviceId) ==
    [v EXCEPT !.recipe_views =
        {w \in @ : w.device_id = deviceId \/ w.rating # NullRating}]

\* C36: in every store the service reaches, a match request of any device
\* gets what it would get from the store without the unrated view rows of
\* the other devices; so two stores that differ in such rows only give the
\* device the same result
C36_ForeignViewsDoNotMatter ==
    \A request \in {r \in MatchRequests : ~ingredientsMissing(r.ingredients)} :
        MatchOutcomes(db, request)
            = MatchOutcomes(WithoutForeignViews(db, request.deviceId), request)

\* a device has been given a stored recipe of which another device has an
\* unrated view row
C36_Witness ==
    \E p \in Procs :
        /\ StoredHit(p)
        /\ req[p].deviceId # ""
        /\ \E w \in db.recipe_views :
              /\ w.recipe_id = resp[p].recipe.id
              /\ w.device_id # req[p].deviceId
              /\ w.rating = NullRating

(***************************************************************************)
(* Concurrent rate requests                                                *)
(***************************************************************************)
\* C37: when the two handlers have both answered a rate request for the same
\* recipe from different devices with success, the recipe carries the
\* aggregate of the ratings stored for it
C37_ConcurrentRatesAggregate ==
    \A p \in Procs, q \in Procs :
        /\ RateDone(p)
        /\ RateDone(q)
        /\ req[p].id = req[q].id
        /\ req[p].deviceId # req[q].deviceId
        => \A r \in db.recipes : r.id = req[p].id => Aggregated(db, r)

(***************************************************************************)
(* A migration that fails on a uniqueness constraint                       *)
(***************************************************************************)
\* handler p has answered a migration between d1 and d2, which both own a
\* premium row, with the server error; the other request served since the
\* store was PremiumStore is a save-favorite request of the other handler
ConflictAnswered(p) ==
    /\ pc[p] = "done"
    /\ req[p].kind = "migrate-device"
    /\ {req[p].oldDeviceId, req[p].newDeviceId} = Devices
    /\ resp[p] = MigrateError
    /\ \A q \in Procs \ {p} : req[q].kind = "save-favorite"

\* C38: when a migration whose target owns a premium row as the old identity
\* does has been answered with the server error, the view rows, the premium
\* rows and the recipes' submitted_by are what they were before the request
C38_ConflictLeavesRows ==
    \A p \in Procs :
        ConflictAnswered(p) =>
            /\ db.recipe_views = PremiumStore.recipe_views
            /\ db.premium_users = PremiumStore.premium_users
            /\ \A r \in PremiumStore.recipes :
                  \E x \in db.recipes : x.id = r.id /\ x.submitted_by = r.submitted_by

\* a migration that meets the uniqueness constraint of recipe_views or
\* premium_users does not go on to its next UPDATE: its handler turns to the
\* ROLLBACK (or, the BEGIN itself having failed, to the server error), and
\* the ROLLBACK is followed by the server error; no step of a migration
\* other than a COMMIT answered with success changes the store
C38_ConflictRollsBack ==
    [][\A p \in Procs :
          /\ (/\ pc[p] \in {"migrate_views", "migrate_premium"}
              /\ pc'[p] # pc[p]
              /\ \E t \in {IF pc[p] = "migrate_views" THEN "recipe_views"
                           ELSE "premium_users"}, c \in PoolClients(p) :
                    rekey(View(c), t, req[p].oldDeviceId,
                          req[p].newDeviceId).violation)
             => \/ pc'[p] = "migrate_rollback"
                \/ pc'[p] = "done" /\ resp'[p] = MigrateError
          /\ (pc[p] = "migrate_rollback" /\ pc'[p] # pc[p])
             => (pc'[p] = "done" /\ resp'[p] = MigrateError)
          /\ (/\ req[p].kind = "migrate-device"
              /\ pc[p] \notin {"idle", "done"}
              /\ pc'[p] # pc[p]
              /\ ~MigrationSucceeds(p))
             => db' = db]_vars

(***************************************************************************)
(* The generation path and the store                                       *)
(***************************************************************************)
\* handler p serves a match request for which the text-generation service
\* has been called
OnGenerationPath(p) ==
    /\ req[p].kind = "match"
    /\ calls[p].stage1 > 0

\* C39: a match request for which the generator is called has not written a
\* view and never does: from its arrival on, every step of a match handler
\* other than the view write of a stored hit leaves the store and the open
\* transactions as they are, and a handler on the generation path is never
\* at the view write; so the request ends, with a generated recipe or with
\* an error, on the store it found
C39_GenerationWritesNothing ==
    /\ [](\A p \in Procs : OnGenerationPath(p) => pc[p] # "match_view")
    /\ [][\A p \in Procs :
             /\ req'[p].kind = "match"
             /\ pc[p] # "match_view"
             /\ <<pc[p], req[p]>> # <<pc'[p], req'[p]>>
             => db' = db /\ tx' = tx]_vars

\* a device that has viewed a stored recipe has been given a generated one
C39_Witness ==
    \E p \in Procs :
        /\ GeneratedHit(p)
        /\ req[p].deviceId # ""
        /\ calls[p].stage2 > 0
        /\ ExclusionOf(db, req[p].deviceId) # {}

(***************************************************************************)
(* The view write and the ratings                                          *)
(***************************************************************************)
\* C40: the step with which a match handler records the view of a stored
\* hit leaves every row of recipe_views in place as it is, in particular the
\* row its own device already has for the recipe, with the rating it carries
C40_ViewKeepsRating ==
    [][\A p \in Procs :
          pc[p] = "match_view" /\ pc'[p] = "done"
          => /\ db.recipe_views \subseteq db'.recipe_views
             /\ priorRating(db', loc[p].recipe.id, req[p].deviceId)
                  = priorRating(db, loc[p].recipe.id, req[p].deviceId)]_vars

\* a match request has been answered with a stored recipe that its device
\* had rated in the meantime: the view write found the row, and the rating
\* is still there
C40_Witness ==
    \E p \in Procs :
        /\ StoredHit(p)
        /\ resp[p].viewLog = "View already exists"
        /\ \E w \in db.recipe_views :
              /\ w.recipe_id = resp[p].recipe.id
              /\ w.device_id = req[p].deviceId
              /\ w.rating # NullRating

=============================================================================
